---- MODULE Spec2Model ----
(***************************************************************************)
(* Verification Orchestration Engine: the single-use verifier, the         *)
(* orchestrator's run state machine (precheck, browser fill, submit gate,  *)
(* submit, polling) and the API client's retry loop.                       *)
(*                                                                         *)
(* The orchestrator is modelled against its injected collaborators         *)
(* (VerificationDeps): every collaborator call is appended to `log`, and   *)
(* every collaborator may return or raise.  human_delay never raises       *)
(* (sheerid_utils.human_delay_async has no raising path) and               *)
(* UiDiagnostics.dump_page never raises (it catches everything).           *)
(***************************************************************************)
EXTENDS Integers, Sequences, FiniteSets, TLC

(***************************************************************************)
(* Bounds and program constants                                            *)
(***************************************************************************)
MaxRuns == 2
MaxRetriesCap == 2
\* attempt indices 0..MaxAttempt of one retry loop
MaxAttempt == 6
\* largest ONE_SHEERID_S3_UPLOAD_MAX_ATTEMPTS
MaxUploadEnv == 3
\* _do_precheck calls of one run
MaxPrechecks == 3
\* nested frames of a page
NestedFrames == 2
\* endpoints of a proxy pool
MaxPool == 2
\* calls made on one pool
MaxPoolCalls == 5
\* ticks of the clock
MaxTime == 3

MaxPolls == 6
TraceLimit == 2000

InitialStep == "collectStudentPersonalInfo"
\* currentStep values a status payload may carry ("absent": no such key)
PayloadSteps == {"absent", InitialStep, "pending", "error"}
\* lengths of the formatted traceback of a raised exception
TraceLens == {1500, 2500}

(***************************************************************************)
(* Python values                                                           *)
(***************************************************************************)
\* Optional[str]: None, or a string given as a sequence of characters
NoneStr == [none |-> TRUE, s |-> <<>>]
Str(s) == [none |-> FALSE, s |-> s]
OptStrings == {NoneStr, Str(<<>>), Str(<<" ">>), Str(<<"A">>), Str(<<" ", "A">>)}

RECURSIVE LStrip(_)
LStrip(s) == IF s = <<>> THEN s
             ELSE IF Head(s) = " " THEN LStrip(Tail(s)) ELSE s

RECURSIVE RStrip(_)
RStrip(s) == IF s = <<>> THEN s
             ELSE IF s[Len(s)] = " " THEN RStrip(SubSeq(s, 1, Len(s) - 1)) ELSE s

\* str.strip()
Strip(s) == RStrip(LStrip(s))

\* str(x or "")
StrOrEmpty(x) == IF x.none \/ x.s = <<>> THEN <<>> ELSE x.s

\* consentChecked as dump_form_ready produces it: True, False or None
ConsentVals == {"True", "False", "None"}
\* str(v).lower()
PyStrLower(v) == CASE v = "True" -> "true" [] v = "False" -> "false" [] OTHER -> "none"
\* v == 1  (True == 1 in Python)
PyEqOne(v) == v = "True"

\* ariaInvalidCount as dump_form_ready produces it: a count, or -1 when the count failed
AriaVals == {-1, 0, 1}
\* int(invalid_count or 0)
IntOrZero(n) == IF n = 0 THEN 0 ELSE n

Snapshots == [schoolId : OptStrings, schoolText : OptStrings,
              consentChecked : ConsentVals, ariaInvalidCount : AriaVals]

\* snapshots the run draws from (a subset of Snapshots)
RunSnapshots == [schoolId : {NoneStr, Str(<<"A">>)}, schoolText : {Str(<<" ">>), Str(<<"A">>)},
                 consentChecked : ConsentVals, ariaInvalidCount : {0, 1}]

EmptySnap == [schoolId |-> NoneStr, schoolText |-> NoneStr,
              consentChecked |-> "None", ariaInvalidCount |-> 0]
\* data = None
DataNone == [isDict |-> FALSE, v |-> EmptySnap]
DataOf(s) == [isDict |-> TRUE, v |-> s]

(***************************************************************************)
(* The submit-readiness gate (VerificationOrchestrator.run, lines 278-291) *)
(***************************************************************************)
\* the organization strings are not stripped
SchoolOk_Unstripped(d) == StrOrEmpty(d.schoolId) # <<>> \/ StrOrEmpty(d.schoolText) # <<>>

SchoolOk(d) == Strip(StrOrEmpty(d.schoolId)) # <<>> \/ Strip(StrOrEmpty(d.schoolText)) # <<>>

ConsentOk(d) == \/ d.consentChecked = "True"
                \/ PyStrLower(d.consentChecked) = "true"
                \/ PyEqOne(d.consentChecked)

AriaOk(d) == IntOrZero(d.ariaInvalidCount) = 0

GateOk(d) == SchoolOk(d) /\ ConsentOk(d) /\ AriaOk(d)

(***************************************************************************)
(* Results                                                                 *)
(***************************************************************************)
NoPayload == [cs |-> "none", n |-> 0]
NoStatus == [kind |-> "none", payload |-> NoPayload]

\* traceback.format_exc()[:2000]
Truncate(n, k) == IF n > k THEN k ELSE n

Result(ok, msg, status, fv) ==
    [outcome |-> "returned", success |-> ok, message |-> msg, traceLen |-> -1,
     status |-> status, formValues |-> fv]

\* the trace is attached whole
RunExcept_Untruncated(e) ==
    [outcome |-> "returned", success |-> FALSE, message |-> "exception",
     traceLen |-> e, status |-> NoStatus, formValues |-> DataNone]

\* the except-clause at the top level of run: a structured failure with a truncated trace
RunExcept(e) ==
    [outcome |-> "returned", success |-> FALSE, message |-> "exception",
     traceLen |-> Truncate(e, TraceLimit), status |-> NoStatus, formValues |-> DataNone]

\* the handler lets the exception through to the caller
VerifyExcept_Reraise(msg, e) ==
    [outcome |-> "raised", success |-> FALSE, message |-> msg,
     traceLen |-> -1, status |-> NoStatus, formValues |-> DataNone]

\* the except-clause of verify: the same conversion, for what verify itself raises
VerifyExcept(msg, e) ==
    [outcome |-> "returned", success |-> FALSE, message |-> msg,
     traceLen |-> Truncate(e, TraceLimit), status |-> NoStatus, formValues |-> DataNone]

\* the step is taken from the payload as it is, without a default
PrecheckStep_NoDefault(p) == p.cs

\* api_service.precheck: step = pre_data.get("currentStep", "collectStudentPersonalInfo")
PrecheckStep(p) == IF p.cs = "absent" THEN InitialStep ELSE p.cs

(***************************************************************************)
(* State                                                                   *)
(***************************************************************************)
VARIABLES
    forceUi,      \* ONE_SHEERID_FORCE_UI is set
    dryRun,       \* ONE_SHEERID_DRY_RUN is set
    hasRun,       \* SheerIDVerifier._has_run
    pc,           \* position of the running verify()/run()
    log,          \* collaborator calls made so far, in order
    raised,       \* steps of the current run in which a collaborator raised
    unfilled,     \* a text field's fill failed inside fill_text in this run
    page,         \* run's local `page` is not None
    currentStep,  \* run's local current_step
    preStatus,    \* run's local pre_status
    data,         \* run's local data (the FormReadySnapshot, or None)
    gate,         \* what became of the submit gate in this run
    remediations, \* consent remediation passes made in this run
    polls,        \* post-submit precheck calls made in this run
    lastStatus,   \* run's local last_status / last_step
    nPrecheck,    \* precheck calls made by this instance
    results       \* what each verify() invocation gave its caller, in order

runVars == <<forceUi, dryRun, hasRun, pc, log, raised, unfilled, page, currentStep, preStatus,
             data, gate, remediations, polls, lastStatus, nPrecheck, results>>

VARIABLES
    maxRetries,   \* SheerIDClient.settings.max_retries
    rjPc,         \* position of request_json: idle, loop, returned, raised
    attempt,      \* request_json's loop variable
    fetches,      \* outcome of each transport call of the request, in order
    rjLastStatus, \* request_json's local last_status
    rjLastData,   \* request_json's local last_data
    rjLastExc,    \* request_json's local last_exc (0: None, k: raised in call k)
    rjOut         \* what request_json gave its caller

clientVars == <<maxRetries, rjPc, attempt, fetches, rjLastStatus, rjLastData, rjLastExc, rjOut>>

\* _compute_backoff_sec over the attempts of one retry loop, delays in tenths of a second
VARIABLES boCap, boAttempt, boJitter, boDelay, boFree, boPrevFree

backoffVars == <<boCap, boAttempt, boJitter, boDelay, boFree, boPrevFree>>

\* SheerIDClient.upload_to_s3: one call
VARIABLES upEnv, upPc, upAttempt, upFetches, upOut

uploadVars == <<upEnv, upPc, upAttempt, upFetches, upOut>>

\* SheerIDVerifier._do_precheck: the locale state of the verifier and its API client,
\* and a record of every api_service.precheck invocation
VARIABLES vLocale, vAccept, apiReady, apiAccept, nDoPrecheck, preLog

localeVars == <<vLocale, vAccept, apiReady, apiAccept, nDoPrecheck, preLog>>

\* FormFiller.locate_form_frame: the page it is given and the frame it returns
VARIABLES pgCount, located

locateVars == <<pgCount, located>>

\* FormFiller.fill_org_and_select_first: the document it works on, its input and its progress
VARIABLES
    orgName,        \* org_name, a sequence of characters
    orgInput,       \* _fresh_org_input finds the school input
    idField,        \* where the page writes the selected organization's identifier
    idValue,        \* the identifier the page writes
    card,           \* the selected-organization card is rendered with a name
    idSet,          \* the identifier has been written
    searchTerms,    \* the search terms derived from the name
    orgPc, termIdx, typed, orgSuccess, forcedSelects, terminalWrites, orgOutcome,
    idAt            \* the term and the selection round during which the identifier was written

orgVars == <<orgName, orgInput, idField, idValue, card, idSet, searchTerms,
             orgPc, termIdx, typed, orgSuccess, forcedSelects, terminalWrites, orgOutcome, idAt>>

\* the command line: the URL argument, the position in _amain, the exit code of the
\* process (-1 while it runs) and the message printed
VARIABLES cliUrl, cliPc, cliExit, cliPrinted
cliVars == <<cliUrl, cliPc, cliExit, cliPrinted>>

\* the proxy pool: its size, cursor, failure counts, cooldown deadlines and lock, the
\* clock, each thread's position in its call, the calls made, the acquires in the
\* order of their returns, and each endpoint's failure reports since its last success
VARIABLES poolN, poolIdx, failCount, cooldownUntil, poolLock, clock, thr, poolCalls,
          acquired, failsReported
poolVars == <<poolN, poolIdx, failCount, cooldownUntil, poolLock, clock, thr, poolCalls,
              acquired, failsReported>>


\* fill_birth_date_combobox (src/form_filler.py 562-633)
VARIABLES
    birthDate,      \* the birth_date argument, a string
    birthPc,        \* position in fill_birth_date_combobox
    birthResult,    \* "none" while running, then "True", "False" or "raised"
    birthLog        \* what was done to the page and its day/month/year controls, in order

birthVars == <<birthDate, birthPc, birthResult, birthLog>>


\* handle_client of the proxy gateway (src/proxy_gateway.py 120-207)
VARIABLES
    gwPc,           \* per connection: position of its handler
    gwHead,         \* per connection: the request head that was read
    gwProxy,        \* per connection: proxy_state, NoEndpoint for None
    gwAcquired,     \* per connection: the endpoints pool.acquire returned to it
    gwReports       \* per connection: its report_success and report_failure calls

gwVars == <<gwPc, gwHead, gwProxy, gwAcquired, gwReports>>

vars == <<runVars, clientVars, backoffVars, uploadVars, localeVars, locateVars, orgVars, cliVars, poolVars, birthVars, gwVars>>

\* the variables a run leaves alone, and those a client request leaves alone
notRun == <<clientVars, backoffVars, uploadVars, localeVars, locateVars, orgVars, cliVars, poolVars, birthVars, gwVars>>
notClient == <<runVars, backoffVars, uploadVars, localeVars, locateVars, orgVars, cliVars, poolVars, birthVars, gwVars>>
notBackoff == <<runVars, clientVars, uploadVars, localeVars, locateVars, orgVars, cliVars, poolVars, birthVars, gwVars>>
notUpload == <<runVars, clientVars, backoffVars, localeVars, locateVars, orgVars, cliVars, poolVars, birthVars, gwVars>>
notLocale == <<runVars, clientVars, backoffVars, uploadVars, locateVars, orgVars, cliVars, poolVars, birthVars, gwVars>>
notLocate == <<runVars, clientVars, backoffVars, uploadVars, localeVars, orgVars, cliVars, poolVars, birthVars, gwVars>>
notOrg == <<runVars, clientVars, backoffVars, uploadVars, localeVars, locateVars, cliVars, poolVars, birthVars, gwVars>>
notCli == <<runVars, clientVars, backoffVars, uploadVars, localeVars, locateVars, orgVars, poolVars, birthVars, gwVars>>
notPool == <<runVars, clientVars, backoffVars, uploadVars, localeVars, locateVars, orgVars, cliVars, birthVars, gwVars>>
notBirth == <<runVars, clientVars, backoffVars, uploadVars, localeVars, locateVars, orgVars, cliVars, poolVars, gwVars>>
notGw == <<runVars, clientVars, backoffVars, uploadVars, localeVars, locateVars, orgVars, cliVars, poolVars, birthVars>>

RunInit(force, dry) ==
    /\ forceUi = force
    /\ dryRun = dry
    /\ hasRun = FALSE
    /\ pc = "idle"
    /\ log = <<>>
    /\ raised = {}
    /\ unfilled = FALSE
    /\ page = FALSE
    /\ currentStep = "none"
    /\ preStatus = NoPayload
    /\ data = DataNone
    /\ gate = "none"
    /\ remediations = 0
    /\ polls = 0
    /\ lastStatus = NoPayload
    /\ nPrecheck = 0
    /\ results = <<>>

(***************************************************************************)
(* Helpers of the run                                                      *)
(***************************************************************************)
\* ui_diag.dump_page(page, ...) returns at once when page is None
DumpPage == IF page THEN <<"dump_page">> ELSE <<>>

\* a return of run(), handed back by verify() to its caller
Return(res, calls) ==
    /\ pc' = "done"
    /\ log' = log \o calls
    /\ results' = Append(results, res)

\* an exception reaching the top-level handler of run()
Fatal(at, e, calls) ==
    /\ raised' = raised \cup {at}
    /\ Return(RunExcept(e), calls \o DumpPage)

\* a collaborator call outside any local handler
Call(at, calls, next) ==
    \/ /\ pc' = next
       /\ log' = log \o calls
       /\ UNCHANGED <<raised, results>>
    \/ \E e \in TraceLens : Fatal(at, e, calls)

\* the exception leaves the handler
Swallowed_Aborts(at, calls, onRaise, next) ==
    \/ /\ pc' = next
       /\ log' = log \o calls
       /\ UNCHANGED <<raised, results>>
    \/ \E e \in TraceLens : Fatal(at, e, calls \o onRaise)

\* a collaborator call whose exception is swallowed by a local handler
Swallowed(at, calls, onRaise, next) ==
    /\ pc' = next
    /\ UNCHANGED results
    /\ \/ /\ log' = log \o calls
          /\ UNCHANGED raised
       \/ /\ log' = log \o calls \o onRaise
          /\ raised' = raised \cup {at}

\* the guard never trips
AlreadyRun_Never(h) == FALSE

\* if self._has_run: raise
AlreadyRun(h) == h

\* only the error step ends the run
EndsAtPrecheck_ErrorOnly(step, force) == step = "error" /\ ~force

\* the override is not consulted
EndsAtPrecheck_IgnoresForce(step, force) == step # InitialStep

\* if current_step != "collectStudentPersonalInfo" and not force_ui: return
EndsAtPrecheck(step, force) == step # InitialStep /\ ~force

\* the loop has no early exit
PollAgain_NoBreak(step) == TRUE

\* the polling loop goes on while the step is still the initial one
PollAgain(step) == step = InitialStep

\* for _ in range(6)
PollBudget == MaxPolls

(***************************************************************************)
(* SheerIDVerifier.verify                                                  *)
(*                                                                         *)
(* The guard and the email check raise inside verify's own try, so both    *)
(* end in VerifyExcept.  config.get_school falls back to the default       *)
(* school, so the unknown-school raise cannot happen.  verify builds the   *)
(* FormFiller itself (no collaborator call of the orchestrator) and hands  *)
(* the orchestrator's result to its caller.  Invocations on one instance   *)
(* follow one another.                                                     *)
(***************************************************************************)
Verify(hasEmail) ==
    /\ pc \in {"idle", "done"}
    /\ Len(results) < MaxRuns
    /\ IF AlreadyRun(hasRun)
       THEN /\ \E e \in TraceLens : Return(VerifyExcept("single_use", e), <<>>)
            /\ UNCHANGED hasRun
       ELSE /\ hasRun' = TRUE
            /\ IF ~hasEmail
               THEN \E e \in TraceLens : Return(VerifyExcept("no_email", e), <<>>)
               ELSE /\ pc' = "precheck"
                    /\ UNCHANGED <<log, results>>
    /\ UNCHANGED <<forceUi, dryRun, unfilled, raised, page, currentStep, preStatus, data, gate,
                   remediations, polls, lastStatus, nPrecheck>>
    /\ UNCHANGED notRun

\* every step that ends the run at the precheck counts as a success
PrecheckSuccess_Always(step) == TRUE

\* "success": current_step != "error", of the result returned at the precheck
PrecheckSuccess(step) == step # "error"

(***************************************************************************)
(* VerificationOrchestrator.run                                            *)
(***************************************************************************)
Precheck ==
    /\ pc = "precheck"
    /\ nPrecheck' = nPrecheck + 1
    /\ \/ /\ \E e \in TraceLens : Fatal("do_precheck", e, <<"do_precheck">>)
          /\ UNCHANGED <<currentStep, preStatus>>
       \/ \E cs \in PayloadSteps :
            LET p == [cs |-> cs, n |-> nPrecheck + 1]
                step == PrecheckStep(p)
            IN /\ currentStep' = step
               /\ preStatus' = p
               /\ UNCHANGED raised
               /\ IF EndsAtPrecheck(step, forceUi)
                  THEN Return(Result(PrecheckSuccess(step), "precheck_step",
                                     [kind |-> "precheck", payload |-> p], DataNone),
                              <<"do_precheck">>)
                  ELSE /\ pc' = "ensure_browser"
                       /\ log' = Append(log, "do_precheck")
                       /\ UNCHANGED results
    /\ UNCHANGED <<forceUi, dryRun, unfilled, hasRun, page, data, gate, remediations, polls, lastStatus>>
    /\ UNCHANGED notRun

EnsureBrowser ==
    /\ pc = "ensure_browser"
    /\ Call("ensure_browser", <<"ensure_browser">>, "ensure_form")
    /\ UNCHANGED <<forceUi, dryRun, unfilled, hasRun, page, currentStep, preStatus, data, gate,
                   remediations, polls, lastStatus, nPrecheck>>
    /\ UNCHANGED notRun

EnsureForm ==
    /\ pc = "ensure_form"
    /\ Call("ensure_form", <<"ensure_form">>, "new_page")
    /\ UNCHANGED <<forceUi, dryRun, unfilled, hasRun, page, currentStep, preStatus, data, gate,
                   remediations, polls, lastStatus, nPrecheck>>
    /\ UNCHANGED notRun

NewPage ==
    /\ pc = "new_page"
    /\ Call("new_page", <<"new_page">>, "goto")
    /\ page' = (pc' = "goto")
    /\ UNCHANGED <<forceUi, dryRun, unfilled, hasRun, currentStep, preStatus, data, gate,
                   remediations, polls, lastStatus, nPrecheck>>
    /\ UNCHANGED notRun

\* the handler returns a result instead
Reraises_Never(force) == FALSE

\* if not force_ui: raise
Reraises(force) == ~force

\* page.goto and the wait that follows it, with their local handler
Goto ==
    /\ pc = "goto"
    /\ \/ /\ pc' = "wait_idle"
          /\ log' = Append(log, "goto")
          /\ UNCHANGED <<raised, results>>
       \/ /\ Reraises(forceUi)
          /\ \E e \in TraceLens : Fatal("goto", e, <<"goto">>)
       \/ /\ ~Reraises(forceUi)
          /\ raised' = raised \cup {"goto"}
          /\ Return(Result(FALSE, "force_ui_goto",
                           [kind |-> "force_ui", payload |-> preStatus], DataNone),
                    <<"goto", "dump_page", "page_close">>)
    /\ UNCHANGED <<forceUi, dryRun, unfilled, hasRun, page, currentStep, preStatus, data, gate,
                   remediations, polls, lastStatus, nPrecheck>>
    /\ UNCHANGED notRun

WaitIdle ==
    /\ pc = "wait_idle"
    /\ Call("wait_network_idle_soft", <<"wait_network_idle_soft">>, "locate")
    /\ UNCHANGED <<forceUi, dryRun, unfilled, hasRun, page, currentStep, preStatus, data, gate,
                   remediations, polls, lastStatus, nPrecheck>>
    /\ UNCHANGED notRun

LocateFormFrame ==
    /\ pc = "locate"
    /\ \/ /\ pc' = "fill_first_name"
          /\ log' = Append(log, "locate_form_frame")
          /\ UNCHANGED <<raised, results>>
       \/ /\ Reraises(forceUi)
          /\ \E e \in TraceLens :
                Fatal("locate_form_frame", e, <<"locate_form_frame", "dump_page">>)
       \/ /\ ~Reraises(forceUi)
          /\ raised' = raised \cup {"locate_form_frame"}
          /\ Return(Result(FALSE, "force_ui_locate",
                           [kind |-> "force_ui", payload |-> preStatus], DataNone),
                    <<"locate_form_frame", "dump_page", "page_close">>)
    /\ UNCHANGED <<forceUi, dryRun, unfilled, hasRun, page, currentStep, preStatus, data, gate,
                   remediations, polls, lastStatus, nPrecheck>>
    /\ UNCHANGED notRun

\* one text field: the pacing delay, then fill_text.  FormFiller.fill_text catches what
\* its own steps raise (the field is not resolved, or cannot be clicked or typed
\* into) and returns; what the collaborator lets through reaches run's handler
FillText(at, call, next) ==
    /\ pc = at
    /\ \/ /\ Call(call, <<"human_delay", call>>, next)
          /\ UNCHANGED unfilled
       \/ /\ pc' = next
          /\ log' = log \o <<"human_delay", call>>
          /\ unfilled' = TRUE
          /\ UNCHANGED <<raised, results>>
    /\ UNCHANGED <<forceUi, dryRun, hasRun, page, currentStep, preStatus, data, gate,
                   remediations, polls, lastStatus, nPrecheck>>
    /\ UNCHANGED notRun

\* the last name is left out
FillFirstName_ThenEmail == FillText("fill_first_name", "fill_text:first_name", "fill_email")

FillFirstName == FillText("fill_first_name", "fill_text:first_name", "fill_last_name")
FillLastName == FillText("fill_last_name", "fill_text:last_name", "fill_email")
FillEmail == FillText("fill_email", "fill_text:email", "fill_org")

FillOrg ==
    /\ pc = "fill_org"
    /\ Swallowed("fill_org_and_select_first", <<"human_delay", "fill_org_and_select_first">>,
                 <<"dump_page">>, "fill_birth_date")
    /\ UNCHANGED <<forceUi, dryRun, unfilled, hasRun, page, currentStep, preStatus, data, gate,
                   remediations, polls, lastStatus, nPrecheck>>
    /\ UNCHANGED notRun

FillBirthDate ==
    /\ pc = "fill_birth_date"
    /\ Swallowed("fill_birth_date_any", <<"human_delay", "fill_birth_date_any">>,
                 <<>>, "checkboxes")
    /\ UNCHANGED <<forceUi, dryRun, unfilled, hasRun, page, currentStep, preStatus, data, gate,
                   remediations, polls, lastStatus, nPrecheck>>
    /\ UNCHANGED notRun

CheckCheckboxes ==
    /\ pc = "checkboxes"
    /\ Swallowed("check_all_visible_checkboxes",
                 <<"human_delay", "check_all_visible_checkboxes">>, <<>>, "snapshot")
    /\ UNCHANGED <<forceUi, dryRun, unfilled, hasRun, page, currentStep, preStatus, data, gate,
                   remediations, polls, lastStatus, nPrecheck>>
    /\ UNCHANGED notRun

(***************************************************************************)
(* dump_form_ready: the organization fields of the snapshot                *)
(***************************************************************************)
\* text of a rendered selected-organization card
CardText == <<"A", "B">>

\* val(frame, selector): the stripped value of the first match, None when it is empty
Val(v) == IF Strip(v) = <<>> THEN NoneStr ELSE Str(Strip(v))

\* what the organization input holds once fill_org_and_select_first is over: the
\* raw name when it was written into the input, else the last term typed
OrgInputValue ==
    IF terminalWrites > 0 THEN Strip(orgName)
    ELSE IF typed # <<>> THEN searchTerms[typed[Len(typed)].term]
    ELSE <<>>

\* lines 620-636: the card's name when a card is rendered, else the value of the
\* first match of SCHOOL_TEXT_SEL, which lists #sid-college-name, the input itself
DumpSchoolText(c, inputMatches, v) ==
    IF c THEN Str(CardText)
    ELSE IF inputMatches THEN Val(v) ELSE NoneStr

\* lines 588-594: the identifier from the hidden inputs and the data attributes
DumpSchoolId(field, val, set) == IF set /\ field # "none" THEN Val(val) ELSE NoneStr

\* the snapshots dump_form_ready can produce on the document the protocol left
OrgSnapshots ==
    {[schoolId |-> DumpSchoolId(idField, idValue, idSet),
      schoolText |-> DumpSchoolText(card, m, OrgInputValue),
      consentChecked |-> c, ariaInvalidCount |-> a] :
        m \in BOOLEAN, c \in ConsentVals, a \in {0, 1}}

\* the snapshots of the document at hand
SnapshotsNow == IF orgPc = "off" THEN RunSnapshots ELSE OrgSnapshots

\* the dry-run switch is ignored
StopsBeforeSubmit_Never(dry) == FALSE

\* if ONE_SHEERID_DRY_RUN is set: return before the gate and the submit
StopsBeforeSubmit(dry) == dry

\* dump_form_ready with its local handler, then the dry-run return
Snapshot ==
    /\ pc = "snapshot"
    /\ orgPc \in {"off", "done"}
    /\ \/ /\ data' = DataNone
          /\ raised' = raised \cup {"dump_form_ready"}
       \/ /\ \E s \in SnapshotsNow : data' = DataOf(s)
          /\ UNCHANGED raised
    /\ IF StopsBeforeSubmit(dryRun)
       THEN Return(Result(TRUE, "DRY_RUN", [kind |-> "dry_run", payload |-> preStatus], data'),
                   <<"dump_form_ready", "dump_page", "page_close">>)
       ELSE /\ pc' = "gate"
            /\ log' = Append(log, "dump_form_ready")
            /\ UNCHANGED results
    /\ UNCHANGED <<forceUi, dryRun, unfilled, hasRun, page, currentStep, preStatus, gate,
                   remediations, polls, lastStatus, nPrecheck>>
    /\ UNCHANGED notRun

\* no second pass
NeedsRemediation_Never(d) == FALSE

\* if consent_checked is not True: one more checkbox pass and snapshot
NeedsRemediation(d) == d.consentChecked # "True"

\* the verdict on the values read from `d`: on to submit, or the failure return
Verdict(d, calls) ==
    IF GateOk(d.v)
    THEN /\ gate' = "passed"
         /\ pc' = "submit"
         /\ log' = log \o calls
         /\ UNCHANGED results
    ELSE /\ gate' = "failed"
         /\ Return(Result(FALSE, "gate_failed", [kind |-> "gate", payload |-> NoPayload], d),
                   calls \o <<"dump_page">>)

\* the pre-submit gate: skipped when data is not a dict
Gate ==
    /\ pc = "gate"
    /\ IF ~data.isDict
       THEN /\ gate' = "skipped"
            /\ pc' = "submit"
            /\ UNCHANGED <<log, results>>
       ELSE IF NeedsRemediation(data.v)
            THEN /\ pc' = "remediate"
                 /\ UNCHANGED <<gate, log, results>>
            ELSE Verdict(data, <<>>)
    /\ UNCHANGED <<forceUi, dryRun, unfilled, hasRun, raised, page, currentStep, preStatus, data,
                   remediations, polls, lastStatus, nPrecheck>>
    /\ UNCHANGED notRun

\* the remediation pass (its exceptions are swallowed), then the verdict
Remediate ==
    /\ pc = "remediate"
    /\ remediations' = remediations + 1
    /\ \/ /\ raised' = raised \cup {"remediate_checkboxes"}
          /\ data' = data
          /\ Verdict(data, <<"human_delay", "check_all_visible_checkboxes">>)
       \/ /\ raised' = raised \cup {"remediate_dump"}
          /\ data' = data
          /\ Verdict(data, <<"human_delay", "check_all_visible_checkboxes", "dump_form_ready">>)
       \/ \E s \in SnapshotsNow :
            /\ UNCHANGED raised
            /\ data' = DataOf(s)
            /\ Verdict(DataOf(s), <<"human_delay", "check_all_visible_checkboxes", "dump_form_ready">>)
    /\ UNCHANGED <<forceUi, dryRun, unfilled, hasRun, page, currentStep, preStatus,
                   polls, lastStatus, nPrecheck>>
    /\ UNCHANGED notRun

Submit ==
    /\ pc = "submit"
    /\ Call("click_submit", <<"human_delay", "click_submit">>, "wait_idle_submitted")
    /\ UNCHANGED <<forceUi, dryRun, unfilled, hasRun, page, currentStep, preStatus, data, gate,
                   remediations, polls, lastStatus, nPrecheck>>
    /\ UNCHANGED notRun

WaitIdleSubmitted ==
    /\ pc = "wait_idle_submitted"
    /\ \/ /\ pc' = "poll"
          /\ log' = log \o <<"wait_network_idle_soft", "dump_page">>
          /\ UNCHANGED <<raised, results>>
       \/ \E e \in TraceLens : Fatal("wait_network_idle_soft", e, <<"wait_network_idle_soft">>)
    /\ UNCHANGED <<forceUi, dryRun, unfilled, hasRun, page, currentStep, preStatus, data, gate,
                   remediations, polls, lastStatus, nPrecheck>>
    /\ UNCHANGED notRun

\* a step that never advanced counts as submitted
PollResult_NotAdvancedOk(p) ==
    IF PrecheckStep(p) = "error"
    THEN Result(FALSE, "submit_error", [kind |-> "poll", payload |-> p], DataNone)
    ELSE Result(TRUE, "submitted", [kind |-> "poll", payload |-> p], DataNone)

\* what run returns once the polling loop is over, from the last polled payload
PollResult(p) ==
    IF PrecheckStep(p) = "error"
    THEN Result(FALSE, "submit_error", [kind |-> "poll", payload |-> p], DataNone)
    ELSE IF PrecheckStep(p) = InitialStep
         THEN Result(FALSE, "not_advanced", [kind |-> "poll", payload |-> p], DataNone)
         ELSE Result(TRUE, "submitted", [kind |-> "poll", payload |-> p], DataNone)

\* one iteration of the polling loop; the loop's exit returns the result
Poll ==
    /\ pc = "poll"
    /\ nPrecheck' = nPrecheck + 1
    /\ \/ /\ \E e \in TraceLens : Fatal("poll", e, <<"do_precheck">>)
          /\ UNCHANGED <<polls, lastStatus>>
       \/ \E cs \in PayloadSteps :
            LET p == [cs |-> cs, n |-> nPrecheck + 1]
            IN /\ polls' = polls + 1
               /\ lastStatus' = p
               /\ IF ~PollAgain(PrecheckStep(p))
                  THEN /\ Return(PollResult(p),
                                 IF PrecheckStep(p) = "error" THEN <<"do_precheck", "dump_page">>
                                                              ELSE <<"do_precheck">>)
                       /\ UNCHANGED raised
                  ELSE /\ \/ UNCHANGED raised
                          \/ raised' = raised \cup {"poll_wait"}
                       /\ IF polls + 1 < PollBudget
                          THEN /\ pc' = "poll"
                               /\ log' = log \o <<"do_precheck", "wait_network_idle_soft">>
                               /\ UNCHANGED results
                          ELSE Return(PollResult(p),
                                      <<"do_precheck", "wait_network_idle_soft", "dump_page">>)
    /\ UNCHANGED <<forceUi, dryRun, unfilled, hasRun, page, currentStep, preStatus, data, gate,
                   remediations>>
    /\ UNCHANGED notRun

(***************************************************************************)
(* SheerIDClient.request_json                                              *)
(***************************************************************************)
RetryStatuses == {408, 429, 500, 502, 503, 504}
Statuses == RetryStatuses \cup {200, 404}

\* what one transport call can do: fetch throws, or it answers with a status and a
\* body that reads as JSON, only as text, or not at all (json() and text() both throw)
Throw == [kind |-> "throw", status |-> 0, body |-> "none"]
Outcomes == {Throw} \cup [kind : {"resp"}, status : Statuses, body : {"json", "text", "unreadable"}]

NoData == [call |-> 0, form |-> "empty"]
NoOut == [kind |-> "none", data |-> NoData, status |-> 0, exc |-> 0]

\* only a throwing fetch counts
AttemptRaises_FetchOnly(o) == o.kind = "throw"

\* an exception leaves the try block of the attempt
AttemptRaises(o) == o.kind = "throw" \/ o.body = "unreadable"

\* every error status is retried
RetryOnStatus_AnyError(att, max, status) == att < max /\ status >= 400

\* if attempt < max_retries and last_status in {408, 429, 500, 502, 503, 504}
RetryOnStatus(att, max, status) == att < max /\ status \in RetryStatuses

\* an exception is always retried, the last attempt's too
RetryOnException_Always(att, max) == att >= 0 /\ max >= 0

\* if attempt < max_retries (in the except clause)
RetryOnException(att, max) == att < max

ClientInit ==
    /\ maxRetries \in 0..MaxRetriesCap
    /\ rjPc = "idle"
    /\ attempt = 0
    /\ fetches = <<>>
    /\ rjLastStatus = 0
    /\ rjLastData = NoData
    /\ rjLastExc = 0
    /\ rjOut = NoOut

\* entry of request_json: the locals before the loop
RequestJson ==
    /\ rjPc = "idle"
    /\ rjPc' = "loop"
    /\ attempt' = 0
    /\ rjLastStatus' = 0
    /\ rjLastData' = NoData
    /\ rjLastExc' = 0
    /\ UNCHANGED <<maxRetries, fetches, rjOut>>
    /\ UNCHANGED notClient

\* one iteration of the retry loop (the backoff sleep changes no state)
Attempt ==
    /\ rjPc = "loop"
    /\ attempt <= maxRetries
    /\ \E o \in Outcomes :
         LET k == Len(fetches) + 1
         IN /\ fetches' = Append(fetches, o)
            /\ IF AttemptRaises(o)
               THEN /\ rjLastExc' = k
                    /\ rjLastStatus' = IF o.kind = "resp" THEN o.status ELSE rjLastStatus
                    /\ UNCHANGED rjLastData
                    /\ IF RetryOnException(attempt, maxRetries)
                       THEN /\ attempt' = attempt + 1
                            /\ UNCHANGED <<rjPc, rjOut>>
                       ELSE /\ rjPc' = "raised"
                            /\ rjOut' = [kind |-> "raised", data |-> NoData, status |-> 0, exc |-> k]
                            /\ UNCHANGED attempt
               ELSE /\ rjLastStatus' = o.status
                    /\ rjLastData' = [call |-> k, form |-> o.body]
                    /\ UNCHANGED rjLastExc
                    /\ IF RetryOnStatus(attempt, maxRetries, o.status)
                       THEN /\ attempt' = attempt + 1
                            /\ UNCHANGED <<rjPc, rjOut>>
                       ELSE /\ rjPc' = "returned"
                            /\ rjOut' = [kind |-> "returned", data |-> rjLastData',
                                         status |-> o.status, exc |-> 0]
                            /\ UNCHANGED attempt
    /\ UNCHANGED maxRetries
    /\ UNCHANGED notClient

(***************************************************************************)
(* SheerIDClient._compute_backoff_sec                                      *)
(***************************************************************************)
\* seconds are counted in tenths: random.uniform(0, 1) is one of 0.0, 0.1, ... 1.0
Tenths == 10
JitterMax == Tenths
Jitters == 0..JitterMax

\* backoff_cap_sec: the default 30 s, and 0 s and 1.5 s set through the environment
DefaultCap == 30 * Tenths
BackoffCaps == {0, 15, DefaultCap}

Max0(n) == IF n > 0 THEN n ELSE 0
Min(a, b) == IF a < b THEN a ELSE b

\* the delay without the cap
ComputeBackoffSec_Uncapped(cap, att, jit) == Tenths * 2^Max0(att) + jit + 0 * cap

\* min(float(cap), float(2 ** max(0, attempt)) + float(jitter))
ComputeBackoffSec(cap, att, jit) == Min(cap, Tenths * 2^Max0(att) + jit)

BackoffInit ==
    /\ boCap \in BackoffCaps
    /\ boAttempt = -1
    /\ boJitter = 0
    /\ boDelay = 0
    /\ boFree = 0
    /\ boPrevFree = 0

\* the delay before the retry that follows attempt boAttempt + 1
Backoff ==
    /\ boAttempt < MaxAttempt
    /\ \E jit \in Jitters :
         LET att == boAttempt + 1
         IN /\ boAttempt' = att
            /\ boJitter' = jit
            /\ boDelay' = ComputeBackoffSec(boCap, att, jit)
            /\ boFree' = ComputeBackoffSec(boCap, att, 0)
            /\ boPrevFree' = IF att = 0 THEN ComputeBackoffSec(boCap, att, 0) ELSE boFree
    /\ UNCHANGED boCap
    /\ UNCHANGED notBackoff

(***************************************************************************)
(* SheerIDClient.upload_to_s3                                              *)
(***************************************************************************)
\* ONE_SHEERID_S3_UPLOAD_MAX_ATTEMPTS as an integer, non-positive values included
UploadEnvs == -1..MaxUploadEnv
UploadStatuses == {199, 200, 299, 300, 500}

\* the PUT throws, or it answers with a status and a body that text() reads or not
UploadOutcomes == {Throw} \cup [kind : {"resp"}, status : UploadStatuses, body : {"text", "unreadable"}]

\* max(1, int(env))
MaxAttempts(env) == IF env > 1 THEN env ELSE 1

\* every status from 200 up counts as success
Is2xx_NoUpperBound(status) == status >= 200

\* 200 <= resp.status < 300
Is2xx(status) == 200 <= status /\ status < 300

UploadInit ==
    /\ upEnv \in UploadEnvs
    /\ upPc = "idle"
    /\ upAttempt = 0
    /\ upFetches = <<>>
    /\ upOut = "none"

\* entry of upload_to_s3
UploadToS3 ==
    /\ upPc = "idle"
    /\ upPc' = "loop"
    /\ upAttempt' = 0
    /\ UNCHANGED <<upEnv, upFetches, upOut>>
    /\ UNCHANGED notUpload

\* one iteration of the loop: the PUT, the early return on success, otherwise the
\* warning and the sleep; the loop's end after the last iteration returns False
UploadAttempt ==
    /\ upPc = "loop"
    /\ upAttempt < MaxAttempts(upEnv)
    /\ \E o \in UploadOutcomes :
         /\ upFetches' = Append(upFetches, o)
         /\ IF o.kind = "resp" /\ Is2xx(o.status)
            THEN /\ upPc' = "done"
                 /\ upOut' = "true"
                 /\ UNCHANGED upAttempt
            ELSE /\ upAttempt' = upAttempt + 1
                 /\ IF upAttempt + 1 < MaxAttempts(upEnv)
                    THEN UNCHANGED <<upPc, upOut>>
                    ELSE upPc' = "done" /\ upOut' = "false"
    /\ UNCHANGED upEnv
    /\ UNCHANGED notUpload

(***************************************************************************)
(* SheerIDVerifier._do_precheck and SheerIDApiService.precheck             *)
(***************************************************************************)
\* locale strings, as sequences of their subtags and separators
EnUS == <<"en", "-", "US">>
FrFR == <<"fr", "-", "FR">>
De == <<"de">>

\* an Accept-Language value, as the sequence of its language ranges (q-values left out)
\* "en-US,en;q=0.9"
DefaultAccept == <<EnUS, <<"en">>>>
FrAccept == <<FrFR, <<"fr">>>>

\* s.split("-")[0]
RECURSIVE SplitFirst(_)
SplitFirst(s) == IF s = <<>> THEN s
                 ELSE IF Head(s) = "-" THEN <<>> ELSE <<Head(s)>> \o SplitFirst(Tail(s))

\* English first, the server's locale second
AcceptLanguageFor_EnglishFirst(srv) == <<EnUS, srv, SplitFirst(srv), <<"en">>>>

\* f"{srv_locale},{srv_locale.split('-')[0]};q=0.9,en-US;q=0.8,en;q=0.7"
AcceptLanguageFor(srv) == <<srv, SplitFirst(srv), EnUS, <<"en">>>>

\* the "locale" entry of a payload: missing or None, a string, or a number
LocNone == [type |-> "none", s |-> <<>>]
LocStr(s) == [type |-> "str", s |-> s]
LocInt == [type |-> "int", s |-> <<>>]
PayloadLocales == {LocNone, LocStr(<<" ">>), LocStr(EnUS), LocStr(FrFR),
                   LocStr(<<" ">> \o FrFR \o <<" ">>), LocStr(De), LocInt}

\* the string is taken as it comes
SrvLocale_Unstripped(l) == IF l.type = "str" THEN l.s ELSE <<>>

\* (pre_data.get("locale") or "").strip(); a number has no strip(): the exception
\* is swallowed before anything is assigned, as if no locale were declared
SrvLocale(l) == IF l.type = "str" THEN Strip(l.s) ELSE <<>>

\* every declared locale is applied
UpdateDue_AnyLocale(srv, cur) == srv # <<>> /\ cur = cur

\* if srv_locale and srv_locale != self.locale
UpdateDue(srv, cur) == srv # <<>> /\ srv # cur

\* the HTTP statuses request_json can return with a payload: a 404 comes with a
\* payload that declares no locale
PrecheckStatuses(p) == IF p.locale = LocNone THEN {200, 404} ELSE {200}

\* the payloads a precheck can receive
PrecheckPayloads == [cs : {"absent", "pending"}, locale : PayloadLocales]
                        \cup {[cs |-> InitialStep, locale |-> LocNone]}

\* the request is sent twice
ApiPrecheckRequests_Twice(hdr) == <<[method |-> "GET", hdr |-> hdr], [method |-> "GET", hdr |-> hdr]>>

\* the requests of one api_service.precheck invocation: one request_json call,
\* whose Accept-Language header is the client's accept_language at that time
ApiPrecheckRequests(hdr) == <<[method |-> "GET", hdr |-> hdr]>>

\* SheerIDVerifier.__init__: ONE_SHEERID_FORCE_EN_US, ONE_SHEERID_ACCEPT_LANGUAGE, ONE_SHEERID_LOCALE
InitAccept(forceEn, al) == IF forceEn \/ al = <<>> THEN DefaultAccept ELSE al
InitLocale(forceEn, al, envLocale) ==
    IF forceEn THEN EnUS
    ELSE IF envLocale # <<>> THEN envLocale
    ELSE IF Strip(Head(InitAccept(forceEn, al))) # <<>> THEN Strip(Head(InitAccept(forceEn, al)))
    ELSE EnUS

LocaleInit ==
    /\ \E forceEn \in BOOLEAN, al \in {<<>>, FrAccept}, envLocale \in {<<>>, FrFR} :
         /\ vAccept = InitAccept(forceEn, al)
         /\ vLocale = InitLocale(forceEn, al, envLocale)
    /\ apiReady = FALSE
    /\ apiAccept = <<>>
    /\ nDoPrecheck = 0
    /\ preLog = <<>>

\* _ensure_api_service raises: nothing is requested
DoPrecheckNoApi ==
    /\ nDoPrecheck < MaxPrechecks
    /\ ~apiReady
    /\ nDoPrecheck' = nDoPrecheck + 1
    /\ UNCHANGED <<vLocale, vAccept, apiReady, apiAccept, preLog>>
    /\ UNCHANGED notLocale

\* the header the client sends: it is created with the verifier's accept_language
ClientAccept == IF apiReady THEN apiAccept ELSE vAccept

\* api_service.precheck raises (request_json raised)
DoPrecheckRaises ==
    /\ nDoPrecheck < MaxPrechecks
    /\ nDoPrecheck' = nDoPrecheck + 1
    /\ apiReady' = TRUE
    /\ apiAccept' = ClientAccept
    /\ preLog' = Append(preLog, [reqs |-> ApiPrecheckRequests(ClientAccept), resp |-> "raised",
                                 http |-> 0, cs |-> "none", declared |-> LocNone, step |-> "none",
                                 before |-> vLocale, after |-> vLocale, hdrAfter |-> ClientAccept])
    /\ UNCHANGED <<vLocale, vAccept>>
    /\ UNCHANGED notLocale

\* api_service.precheck returns (step, pre_data); the server locale is then applied
DoPrecheckReturns ==
    /\ nDoPrecheck < MaxPrechecks
    /\ \E p \in PrecheckPayloads : \E st \in PrecheckStatuses(p) :
         LET srv == SrvLocale(p.locale)
             due == UpdateDue(srv, vLocale)
         IN /\ vLocale' = IF due THEN srv ELSE vLocale
            /\ vAccept' = IF due THEN AcceptLanguageFor(srv) ELSE vAccept
            /\ apiAccept' = IF due THEN AcceptLanguageFor(srv) ELSE ClientAccept
            /\ preLog' = Append(preLog, [reqs |-> ApiPrecheckRequests(ClientAccept), resp |-> "ok",
                                         http |-> st, cs |-> p.cs, declared |-> p.locale,
                                         step |-> PrecheckStep(p),
                                         before |-> vLocale, after |-> vLocale',
                                         hdrAfter |-> apiAccept'])
    /\ nDoPrecheck' = nDoPrecheck + 1
    /\ apiReady' = TRUE
    /\ UNCHANGED notLocale

(***************************************************************************)
(* FormFiller.locate_form_frame                                            *)
(***************************************************************************)
\* candidates = ["#sid-college-name", "#sid-email", "#sid-first-name"]
Candidates == <<"#sid-college-name", "#sid-email", "#sid-first-name">>

\* the contexts of a page: 0 is the main frame, 1..NestedFrames the nested frames
\* in document order; page.frames lists them all, the main frame first
MainFrame == 0
Contexts == 0..NestedFrames
NoFrame == -1

\* what locator(selector).first.count() does in a context: a positive count, zero, or an exception
CountAnswers == {"match", "none", "raise"}
Pages == [Contexts -> [1..Len(Candidates) -> CountAnswers]]

\* count() > 0, an exception counting as no match
HasSelector(pg, ctx, c) == pg[ctx][c] = "match"

\* for frame in page.frames: the first frame from index i on that has the selector
RECURSIVE FirstFrameWith(_, _, _)
FirstFrameWith(pg, c, i) ==
    IF i > NestedFrames THEN MainFrame
    ELSE IF HasSelector(pg, i, c) THEN i
    ELSE FirstFrameWith(pg, c, i + 1)

\* _find_frame_with_selector
FindFrameWithSelector(pg, c) ==
    IF HasSelector(pg, MainFrame, c) THEN MainFrame ELSE FirstFrameWith(pg, c, 0)

\* locate_form_frame, from candidate c on
RECURSIVE LocateFrom(_, _)
LocateFrom(pg, c) ==
    IF c > Len(Candidates) THEN MainFrame
    ELSE IF FindFrameWithSelector(pg, c) # MainFrame THEN FindFrameWithSelector(pg, c)
    ELSE LocateFrom(pg, c + 1)

LocateInit ==
    /\ pgCount \in Pages
    /\ located = NoFrame

\* one call of locate_form_frame
Locate ==
    /\ located = NoFrame
    /\ located' = LocateFrom(pgCount, 1)
    /\ UNCHANGED pgCount
    /\ UNCHANGED notLocate

(***************************************************************************)
(* FormFiller.fill_org_and_select_first                                    *)
(***************************************************************************)
MaxRounds == 4
MaxIdPolls == 8
MinTermLen == 2
MinIdLen == 5

\* s.split("-")
RECURSIVE SplitDash(_)
SplitDash(s) ==
    IF \A i \in 1..Len(s) : s[i] # "-" THEN <<s>>
    ELSE LET i == CHOOSE j \in 1..Len(s) : s[j] = "-" /\ \A k \in 1..(j - 1) : s[k] # "-"
         IN <<SubSeq(s, 1, i - 1)>> \o SplitDash(SubSeq(s, i + 1, Len(s)))

\* s.replace("-", " ")
DashToSpace(s) == [i \in 1..Len(s) |-> IF s[i] = "-" THEN " " ELSE s[i]]

\* [p.strip() for p in raw_name.split("-") if p.strip()]
StripAll(ps) == [i \in 1..Len(ps) |-> Strip(ps[i])]
NonEmpty(p) == p # <<>>
Parts(raw) == SelectSeq(StripAll(SplitDash(raw)), NonEmpty)

InSeq(x, seq) == \E i \in 1..Len(seq) : seq[i] = x

\* the search terms of lines 416-424, in the order they are tried
TrailingTerm(raw) ==
    IF (\E i \in 1..Len(raw) : raw[i] = "-") /\ Len(Parts(raw)) > 1
    THEN <<Parts(raw)[Len(Parts(raw))]>> ELSE <<>>
WithClean(terms, raw) ==
    LET clean == Strip(DashToSpace(raw))
    IN IF clean # <<>> /\ ~InSeq(clean, terms) THEN Append(terms, clean) ELSE terms
\* the raw name is appended even when it is already a term
WithRaw_NoDedup(terms, raw) == IF raw # <<>> THEN Append(terms, raw) ELSE terms

WithRaw(terms, raw) == IF raw # <<>> /\ ~InSeq(raw, terms) THEN Append(terms, raw) ELSE terms
SearchTerms(name) == WithRaw(WithClean(TrailingTerm(Strip(name)), Strip(name)), Strip(name))

\* the names given to the protocol
OrgNames == {<<>>, <<"A">>, <<" ", "A", "B">>, <<"A", "B", "-", "C", "D">>,
             <<"A", "B", "-", "C">>, <<"-", "A", "B">>}

\* the identifiers a page writes, and the element it writes them to:
\* input[name=organizationId] or input[name=schoolId] ("orgId"), another hidden
\* input of _check_org_id_filled's list ("alt"), the data-selected-id attribute
\* of the school input ("data"), or nothing at all ("none")
ShortId == <<"2", "5", "6", "5">>
LongId == <<"1", "1", "0", "5", "6", "5">>
IdFields == {"none", "orgId", "alt", "data"}

\* any written identifier counts, whatever its length
IdValueCounts_AnyLength(val) == val # <<>>

\* val and val.strip() and len(val) > 5
IdValueCounts(val) == val # <<>> /\ Strip(val) # <<>> /\ Len(val) > MinIdLen

\* _check_org_id_filled on a document
CheckOrgIdFilled(field, val, set) ==
    /\ set
    /\ \/ field \in {"orgId", "alt"} /\ IdValueCounts(val)
       \/ field = "data" /\ val # <<>>

\* _check_org_selected_strict on a document: its reason
StrictReason(c, field, val, set) ==
    IF c THEN "selected_org_container"
    ELSE IF set /\ field = "orgId" /\ Strip(val) # <<>> THEN "hidden_org_id"
    ELSE "not_selected"

\* the card is not looked at
IsOrgAlreadySelected_IdOnly(c, field, val, set) == set /\ field = "orgId" /\ Strip(val) # <<>>

\* _is_org_already_selected on a document
IsOrgAlreadySelected(c, field, val, set) == c \/ (set /\ field = "orgId" /\ Strip(val) # <<>>)

NoId == [term |-> 0, round |-> 0]

OrgInit ==
    /\ orgName \in OrgNames
    /\ orgInput \in BOOLEAN
    /\ idField \in IdFields
    /\ idValue \in {ShortId, LongId}
    /\ card \in BOOLEAN
    /\ idSet \in (IF idField = "none" THEN {FALSE} ELSE BOOLEAN)
    /\ searchTerms = <<>>
    /\ orgPc = "idle"
    /\ termIdx = 0
    /\ typed = <<>>
    /\ orgSuccess = FALSE
    /\ forcedSelects = 0
    /\ terminalWrites = 0
    /\ orgOutcome = "none"
    /\ idAt = NoId

orgDoc == <<orgName, orgInput, idField, idValue>>

\* the page answers an interaction: it may render the card and may write the identifier
Reacts(round) ==
    /\ card' \in {card, TRUE}
    /\ idSet' \in (IF idField = "none" THEN {FALSE} ELSE {idSet, TRUE})
    /\ idAt' = IF idSet' /\ ~idSet THEN [term |-> termIdx, round |-> round] ELSE idAt

Rounds == IF typed = <<>> THEN 0 ELSE typed[Len(typed)].rounds
IdPolls == IF typed = <<>> THEN 0 ELSE typed[Len(typed)].polls

\* the lookup always yields a locator
FindOrgComboboxInput_Always(hasInput) == TRUE

\* _find_org_combobox_input: the first visible hit of its five strategies, None when
\* none of them hits (hasInput: some strategy hits on the document)
FindOrgComboboxInput(hasInput) == hasInput

\* lines 403-414: the short-circuit, the wait and the lookup of the input
OrgEntry ==
    /\ orgPc = "idle"
    /\ IF IsOrgAlreadySelected(card, idField, idValue, idSet)
       THEN orgPc' = "done" /\ orgOutcome' = "already_selected" /\ UNCHANGED termIdx
       ELSE IF ~FindOrgComboboxInput(orgInput)
       THEN orgPc' = "done" /\ orgOutcome' = "not_found" /\ UNCHANGED termIdx
       ELSE orgPc' = "term" /\ termIdx' = 1 /\ UNCHANGED orgOutcome
    /\ searchTerms' = IF orgPc' = "term" THEN SearchTerms(orgName) ELSE searchTerms
    /\ UNCHANGED <<orgDoc, card, idSet, typed, orgSuccess, forcedSelects, terminalWrites, idAt>>
    /\ UNCHANGED notOrg

\* what typing a term leads to: a primitive of lines 440-446 raises, no option
\* becomes visible, options.count() raises, the options are gone when counted,
\* or there are options to select from
TermOutcomes == {"type_raises", "no_menu", "count_raises", "no_options", "options"}
TermRaises(o) == o \in {"type_raises", "count_raises"}

\* lines 531-533: the handler's keyboard.press("Escape") is not guarded, its exception leaves the function
EscapeEscapes(escapeRaises) == escapeRaises

\* one round more
MoreRounds_OneMore(n) == n < MaxRounds + 1

\* for _ in range(4)
MoreRounds(n) == n < MaxRounds

\* lines 428-470 and 531-533: the next search term is typed
OrgTerm ==
    /\ orgPc = "term"
    /\ LET terms == searchTerms
       IN IF termIdx > Len(terms)
          THEN /\ orgPc' = "final"
               /\ UNCHANGED <<termIdx, typed, orgOutcome>>
          ELSE IF Len(terms[termIdx]) < MinTermLen
          THEN /\ termIdx' = termIdx + 1
               /\ UNCHANGED <<orgPc, typed, orgOutcome>>
          ELSE \E o \in TermOutcomes, escapeRaises \in BOOLEAN :
                 /\ typed' = IF o = "type_raises" THEN typed
                             ELSE Append(typed, [term |-> termIdx, rounds |-> 0, polls |-> 0])
                 /\ IF TermRaises(o) /\ EscapeEscapes(escapeRaises)
                    THEN orgPc' = "done" /\ orgOutcome' = "raised" /\ UNCHANGED termIdx
                    ELSE IF TermRaises(o) \/ o = "no_menu"
                    THEN termIdx' = termIdx + 1 /\ UNCHANGED <<orgPc, orgOutcome>>
                    ELSE /\ orgPc' = IF o = "options" THEN "round_kb" ELSE "poll"
                         /\ UNCHANGED <<termIdx, orgOutcome>>
    /\ UNCHANGED <<orgDoc, searchTerms, card, idSet, orgSuccess, forcedSelects, terminalWrites, idAt>>
    /\ UNCHANGED notOrg

\* lines 476-486: a round starts with ArrowDown and Enter, then the identifier is checked
OrgRoundKeyboard ==
    /\ orgPc = "round_kb"
    /\ typed' = [typed EXCEPT ![Len(typed)].rounds = @ + 1]
    /\ Reacts(Rounds + 1)
    /\ orgPc' = IF CheckOrgIdFilled(idField, idValue, idSet') THEN "tab" ELSE "round_js"
    /\ UNCHANGED <<orgDoc, searchTerms, termIdx, orgSuccess, forcedSelects, terminalWrites, orgOutcome>>
    /\ UNCHANGED notOrg

\* lines 488-502: the first option is clicked by script, then the identifier is checked
OrgRoundJs ==
    /\ orgPc = "round_js"
    /\ Reacts(Rounds)
    /\ orgPc' = IF CheckOrgIdFilled(idField, idValue, idSet') THEN "tab"
                ELSE IF MoreRounds(Rounds) THEN "round_kb" ELSE "tab"
    /\ UNCHANGED <<orgDoc, searchTerms, termIdx, typed, orgSuccess, forcedSelects, terminalWrites, orgOutcome>>
    /\ UNCHANGED notOrg

\* lines 505-508: Tab takes the focus away
OrgTab ==
    /\ orgPc = "tab"
    /\ Reacts(0)
    /\ orgPc' = "poll"
    /\ UNCHANGED <<orgDoc, searchTerms, termIdx, typed, orgSuccess, forcedSelects, terminalWrites, orgOutcome>>
    /\ UNCHANGED notOrg

\* lines 511-514: one iteration of the identifier polls
OrgPoll ==
    /\ orgPc = "poll"
    /\ typed' = [typed EXCEPT ![Len(typed)].polls = @ + 1]
    /\ IF CheckOrgIdFilled(idField, idValue, idSet)
       THEN orgPc' = "confirm" /\ UNCHANGED <<card, idSet, idAt>>
       ELSE /\ Reacts(0)
            /\ orgPc' = IF IdPolls + 1 < MaxIdPolls THEN "poll" ELSE "confirm"
    /\ UNCHANGED <<orgDoc, searchTerms, termIdx, orgSuccess, forcedSelects, terminalWrites, orgOutcome>>
    /\ UNCHANGED notOrg

\* lines 516-529: the strict check of the term, and the exact-name forced write
\* when the selection is confirmed without an identifier
OrgConfirm ==
    /\ orgPc = "confirm"
    /\ IF StrictReason(card, idField, idValue, idSet) # "not_selected"
       THEN /\ orgSuccess' = TRUE
            /\ orgPc' = "final"
            /\ UNCHANGED termIdx
            /\ IF ~CheckOrgIdFilled(idField, idValue, idSet)
               THEN /\ forcedSelects' = forcedSelects + 1
                    /\ card' \in BOOLEAN
                    /\ idSet' \in (IF idField = "none" THEN {FALSE} ELSE {idSet, TRUE})
                    /\ idAt' = IF idSet' /\ ~idSet THEN [term |-> termIdx, round |-> 0] ELSE idAt
               ELSE UNCHANGED <<forcedSelects, card, idSet, idAt>>
       ELSE /\ termIdx' = termIdx + 1
            /\ orgPc' = "term"
            /\ UNCHANGED <<orgSuccess, forcedSelects, card, idSet, idAt>>
    /\ UNCHANGED <<orgDoc, searchTerms, typed, terminalWrites, orgOutcome>>
    /\ UNCHANGED notOrg

\* lines 535-555: the final strict check, and the raw name written into the input
\* when nothing is selected
OrgFinal ==
    /\ orgPc = "final"
    /\ orgPc' = "done"
    /\ orgOutcome' = StrictReason(card, idField, idValue, idSet)
    /\ terminalWrites' = IF StrictReason(card, idField, idValue, idSet) = "not_selected"
                            /\ Strip(orgName) # <<>> /\ orgInput
                         THEN terminalWrites + 1 ELSE terminalWrites
    /\ UNCHANGED <<orgDoc, searchTerms, card, idSet, termIdx, typed, orgSuccess, forcedSelects, idAt>>
    /\ UNCHANGED notOrg

(***************************************************************************)
(* __main__._amain                                                         *)
(*                                                                         *)
(* A URL is a sequence of tokens: the literal "verificationId=", the       *)
(* delimiters "&" and "#", and other characters.                           *)
(***************************************************************************)
CliUrls == {<<>>, <<"x">>, <<"verificationId=">>, <<"verificationId=", "&">>,
            <<"verificationId=", "1">>, <<"x", "verificationId=", "1", "#">>}

\* re.search(r"verificationId=([^&#]+)", url)
VidMatch(url) ==
    \E i \in 1..(Len(url) - 1) : url[i] = "verificationId=" /\ url[i + 1] \notin {"&", "#"}

NoExit == -1
InvalidUrlExit == 2
\* line 28: return 0, whatever the result
ExitCode(res) == 0

CliInit ==
    /\ cliUrl \in CliUrls
    /\ cliPc = "idle"
    /\ cliExit = NoExit
    /\ cliPrinted = "none"

\* lines 16-23: the arguments and the check of the URL
CliStart ==
    /\ cliPc = "idle"
    /\ IF ~VidMatch(cliUrl)
       THEN cliPc' = "exit" /\ cliExit' = InvalidUrlExit /\ cliPrinted' = "invalid_url"
       ELSE cliPc' = "run" /\ UNCHANGED <<cliExit, cliPrinted>>
    /\ UNCHANGED cliUrl
    /\ UNCHANGED notCli

\* line 26: verifier.verify(email=email) on the fresh verifier, the email being any
\* argument, the empty one included
CliVerify ==
    /\ cliPc = "run"
    /\ pc = "idle"
    /\ \E hasEmail \in BOOLEAN : Verify(hasEmail)

\* lines 27-28: the message is printed, the verifier closed and 0 returned
CliReturn ==
    /\ cliPc = "run"
    /\ pc = "done"
    /\ cliPc' = "exit"
    /\ cliPrinted' = results[1].message
    /\ cliExit' = ExitCode(results[1])
    /\ UNCHANGED cliUrl
    /\ UNCHANGED notCli

(***************************************************************************)
(* ProxyPool                                                               *)
(*                                                                         *)
(* Endpoints are the positions 0..n-1 of the list.  Time is counted in     *)
(* ticks of the clock.  Each call takes the lock, runs its statements one  *)
(* by one and releases the lock on return.                                 *)
(***************************************************************************)
Threads == {"t1", "t2"}
NoThread == "none"
NoEndpoint == -1
MaxFail == 2
\* cooldown_sec, in ticks
CooldownTicks == 2

Endpoints == 0..(poolN - 1)

\* _is_available: now >= it.cooldown_until
IsAvailable(until, now) == now >= until

\* the cursor stays where it is
NextIdx_Stuck(i, n) == i

\* self._idx = (self._idx + 1) % n
NextIdx(i, n) == (i + 1) % n

\* the lock is never waited for
LockFree_Always(l) == TRUE

\* with self._lock: entered when no thread holds the lock
LockFree(l) == l = NoThread

\* cooldown is due only past max_fail
CooldownDue_After(count) == count > MaxFail

\* if proxy.fail_count >= self._max_fail
CooldownDue(count) == count >= MaxFail

IdleThread == [pc |-> "idle", op |-> "none", ep |-> NoEndpoint, k |-> 0, best |-> NoEndpoint,
               bestT |-> 0, now |-> 0, start |-> 0, read |-> 0]

PoolInit ==
    /\ poolN \in 1..MaxPool
    /\ poolIdx = 0
    /\ failCount = [e \in 0..(MaxPool - 1) |-> 0]
    /\ cooldownUntil = [e \in 0..(MaxPool - 1) |-> 0]
    /\ poolLock = NoThread
    /\ clock = 0
    /\ thr = [t \in Threads |-> IdleThread]
    /\ poolCalls = 0
    /\ acquired = <<>>
    /\ failsReported = [e \in 0..(MaxPool - 1) |-> 0]

\* time passes; the clock is read only against cooldown deadlines, so it is
\* advanced only while some endpoint is cooling down
Tick ==
    /\ \E e \in Endpoints : cooldownUntil[e] > clock
    /\ clock < MaxTime
    /\ clock' = clock + 1
    /\ UNCHANGED <<poolN, poolIdx, failCount, cooldownUntil, poolLock, thr, poolCalls,
                   acquired, failsReported>>
    /\ UNCHANGED notPool

\* a thread calls acquire, report_success or report_failure
PoolCall(t) ==
    /\ poolN > 0
    /\ thr[t].pc = "idle"
    /\ poolCalls < MaxPoolCalls
    /\ poolCalls' = poolCalls + 1
    /\ \/ thr' = [thr EXCEPT ![t] = [IdleThread EXCEPT !.pc = "wait", !.op = "acquire"]]
       \/ \E e \in Endpoints, op \in {"report_success", "report_failure"} :
            thr' = [thr EXCEPT ![t] = [IdleThread EXCEPT !.pc = "wait", !.op = op, !.ep = e]]
    /\ UNCHANGED <<poolN, poolIdx, failCount, cooldownUntil, poolLock, clock,
                   acquired, failsReported>>
    /\ UNCHANGED notPool

\* with self._lock; acquire then reads the time and starts its loop
PoolLock(t) ==
    /\ thr[t].pc = "wait"
    /\ LockFree(poolLock)
    /\ poolLock' = t
    /\ thr' = [thr EXCEPT ![t].pc = "body", ![t].now = clock, ![t].start = poolIdx]
    /\ UNCHANGED <<poolN, poolIdx, failCount, cooldownUntil, clock, poolCalls,
                   acquired, failsReported>>
    /\ UNCHANGED notPool

\* the return of acquire: the lock is released and the endpoint handed out
AcquireReturns(t, e) ==
    /\ poolLock' = IF poolLock = t THEN NoThread ELSE poolLock
    /\ thr' = [thr EXCEPT ![t] = IdleThread]
    /\ acquired' = Append(acquired,
                          [t |-> t, ep |-> e, start |-> thr[t].start,
                           avail |-> {x \in Endpoints : thr[t].now >= cooldownUntil[x]},
                           conc |-> {u \in Threads \ {t} :
                                        thr[u].op = "acquire" /\ thr[u].pc = "wait"}])

\* for _ in range(n): it = self._items[self._idx]; after the loop, return best[1]
AcquireRead(t) ==
    /\ thr[t].pc = "body"
    /\ thr[t].op = "acquire"
    /\ IF thr[t].k = poolN
       THEN AcquireReturns(t, thr[t].best)
       ELSE /\ thr' = [thr EXCEPT ![t].ep = poolIdx, ![t].pc = "advance"]
            /\ UNCHANGED <<poolLock, acquired>>
    /\ UNCHANGED <<poolN, poolIdx, failCount, cooldownUntil, clock, poolCalls, failsReported>>
    /\ UNCHANGED notPool

\* the endpoint whose cooldown ends latest is remembered
EndsEarlier_Later(t, best, bestT) == best = NoEndpoint \/ t > bestT

\* if best is None or t < best[0]
EndsEarlier(t, best, bestT) == best = NoEndpoint \/ t < bestT

\* the cursor moves on; an available endpoint is returned, another one is remembered
\* when its cooldown ends earliest
AcquireAdvance(t) ==
    /\ thr[t].pc = "advance"
    /\ poolIdx' = NextIdx(poolIdx, poolN)
    /\ LET e == thr[t].ep
           until == cooldownUntil[e]
       IN IF IsAvailable(until, thr[t].now)
          THEN AcquireReturns(t, e)
          ELSE /\ thr' = [thr EXCEPT ![t].pc = "body", ![t].k = @ + 1,
                              ![t].best = IF EndsEarlier(until, thr[t].best, thr[t].bestT)
                                          THEN e ELSE @,
                              ![t].bestT = IF EndsEarlier(until, thr[t].best, thr[t].bestT)
                                           THEN until ELSE @]
               /\ UNCHANGED <<poolLock, acquired>>
    /\ UNCHANGED <<poolN, failCount, cooldownUntil, clock, poolCalls, failsReported>>
    /\ UNCHANGED notPool

\* report_success: the count and the cooldown are cleared
ReportSuccess(t) ==
    /\ thr[t].pc = "body"
    /\ thr[t].op = "report_success"
    /\ failCount' = [failCount EXCEPT ![thr[t].ep] = 0]
    /\ cooldownUntil' = [cooldownUntil EXCEPT ![thr[t].ep] = 0]
    /\ failsReported' = [failsReported EXCEPT ![thr[t].ep] = 0]
    /\ poolLock' = IF poolLock = t THEN NoThread ELSE poolLock
    /\ thr' = [thr EXCEPT ![t] = IdleThread]
    /\ UNCHANGED <<poolN, poolIdx, clock, poolCalls, acquired>>
    /\ UNCHANGED notPool

\* report_failure, proxy.fail_count += 1: the count is read
ReportFailureRead(t) ==
    /\ thr[t].pc = "body"
    /\ thr[t].op = "report_failure"
    /\ thr' = [thr EXCEPT ![t].read = failCount[thr[t].ep], ![t].pc = "write"]
    /\ UNCHANGED <<poolN, poolIdx, failCount, cooldownUntil, poolLock, clock, poolCalls,
                   acquired, failsReported>>
    /\ UNCHANGED notPool

\* the incremented count is stored, and the cooldown set when the count has reached max_fail
ReportFailureWrite(t) ==
    /\ thr[t].pc = "write"
    /\ LET e == thr[t].ep
       IN /\ failCount' = [failCount EXCEPT ![e] = thr[t].read + 1]
          /\ cooldownUntil' = IF CooldownDue(thr[t].read + 1)
                              THEN [cooldownUntil EXCEPT ![e] = clock + CooldownTicks]
                              ELSE cooldownUntil
          /\ failsReported' = [failsReported EXCEPT ![e] = @ + 1]
    /\ poolLock' = IF poolLock = t THEN NoThread ELSE poolLock
    /\ thr' = [thr EXCEPT ![t] = IdleThread]
    /\ UNCHANGED <<poolN, poolIdx, clock, poolCalls, acquired>>
    /\ UNCHANGED notPool


(***************************************************************************)
(* The birth date (src/form_filler.py 562-633)                             *)
(***************************************************************************)
DigitChars == <<"0", "1", "2", "3", "4", "5", "6", "7", "8", "9">>
\* \d
IsDigit(c) == \E i \in 1..Len(DigitChars) : DigitChars[i] = c
AllDigits(s) == \A i \in 1..Len(s) : IsDigit(s[i])
DigitVal(c) == (CHOOSE i \in 1..Len(DigitChars) : DigitChars[i] = c) - 1

\* int(s) of a string of digits
RECURSIVE ParseInt(_)
ParseInt(s) == IF s = <<>> THEN 0
               ELSE 10 * ParseInt(SubSeq(s, 1, Len(s) - 1)) + DigitVal(s[Len(s)])

\* str(n) of a natural number
RECURSIVE IntToStr(_)
IntToStr(n) == IF n < 10 THEN <<DigitChars[n + 1]>>
               ELSE IntToStr(n \div 10) \o <<DigitChars[(n % 10) + 1]>>

\* f"{n:02d}"
Pad2(n) == IF n < 10 THEN <<"0">> \o IntToStr(n) ELSE IntToStr(n)

\* the pattern without its closing anchor: anything may follow the day
DateGroupLens_NoAnchor(s) ==
    {k \in (1..2) \X (1..2) :
        /\ Len(s) >= 6 + k[1] + k[2]
        /\ AllDigits(SubSeq(s, 1, 4))
        /\ s[5] = "-"
        /\ AllDigits(SubSeq(s, 6, 5 + k[1]))
        /\ s[6 + k[1]] = "-"
        /\ AllDigits(SubSeq(s, 7 + k[1], 6 + k[1] + k[2]))}

\* re.match(r"^(\d{4})-(\d{1,2})-(\d{1,2})$", s): the lengths of the month and day
\* groups of every way the pattern matches the whole of s (none: no match)
DateGroupLens(s) ==
    {k \in (1..2) \X (1..2) :
        /\ Len(s) = 6 + k[1] + k[2]
        /\ AllDigits(SubSeq(s, 1, 4))
        /\ s[5] = "-"
        /\ AllDigits(SubSeq(s, 6, 5 + k[1]))
        /\ s[6 + k[1]] = "-"
        /\ AllDigits(SubSeq(s, 7 + k[1], Len(s)))}

\* y, mo, d = int(m.group(1)), int(m.group(2)), int(m.group(3))
DateGroups(s) ==
    LET k == CHOOSE k \in DateGroupLens(s) : TRUE
    IN [y  |-> ParseInt(SubSeq(s, 1, 4)),
        mo |-> ParseInt(SubSeq(s, 6, 5 + k[1])),
        d  |-> ParseInt(SubSeq(s, 7 + k[1], 6 + k[1] + k[2]))]

\* months, lines 602-603
MonthNames == <<"January", "February", "March", "April", "May", "June",
                "July", "August", "September", "October", "November", "December">>

\* birth dates: an optional blank, a year, a separator, a month, a separator, a day
\* and a tail; and the empty string
BirthPads   == {<<>>, <<" ">>}
BirthYears  == {<<"2","0","0","0">>, <<"2","0","0">>, <<"2","0","0","0","1">>, <<"2","x","0","0">>}
BirthSeps   == {"-", "/"}
BirthMonths == {<<"1">>, <<"1","2">>, <<"1","3">>, <<>>, <<"0","0","1">>}
BirthDays   == {<<"5">>, <<"3","1">>, <<>>, <<"1","2","3">>}
BirthTails  == {<<>>, <<" ">>, <<"x">>}
BirthDates ==
    {<<>>} \cup
    {p \o y \o <<s1>> \o m \o <<s2>> \o d \o t :
        p \in BirthPads, y \in BirthYears, s1 \in BirthSeps, m \in BirthMonths,
        s2 \in BirthSeps, d \in BirthDays, t \in BirthTails}

BirthInit ==
    /\ birthDate \in BirthDates
    /\ birthPc = "idle"
    /\ birthResult = "none"
    /\ birthLog = <<>>

Parsed == DateGroups(Strip(birthDate))
BirthEntryOf(key, op, text) == [key |-> key, op |-> op, text |-> text]

\* lines 563-569: the empty string and a string the pattern does not match return False
BirthEntry ==
    /\ birthPc = "idle"
    /\ IF birthDate = <<>> \/ DateGroupLens(Strip(birthDate)) = {}
       THEN birthPc' = "done" /\ birthResult' = "False"
       ELSE birthPc' = "js" /\ UNCHANGED birthResult
    /\ UNCHANGED <<birthDate, birthLog>>
    /\ UNCHANGED notBirth

\* lines 573-590: the script that sets the day and the year; its failure is swallowed
BirthEvaluate ==
    /\ birthPc = "js"
    /\ \E ok \in BOOLEAN :
         birthLog' = Append(birthLog,
            BirthEntryOf("page", IF ok THEN "evaluate" ELSE "evaluate_raised",
                         <<IntToStr(Parsed.d), IntToStr(Parsed.y)>>))
    /\ birthPc' = "month"
    /\ UNCHANGED <<birthDate, birthResult>>
    /\ UNCHANGED notBirth

\* lines 621-628 of _check_and_fill: the value is read outside any try; the typing
\* is inside one
PlainFill(key, valStr, sofar, next) ==
    \/ /\ birthLog' = Append(sofar, BirthEntryOf(key, "value_raised", <<>>))
       /\ birthPc' = "done" /\ birthResult' = "raised"
    \/ /\ birthLog' = Append(sofar, BirthEntryOf(key, "kept", valStr))
       /\ birthPc' = next /\ UNCHANGED birthResult
    \/ /\ \E op \in {"filled", "fill_raised"} :
            birthLog' = Append(sofar, BirthEntryOf(key, op, valStr))
       /\ birthPc' = next /\ UNCHANGED birthResult

\* _check_and_fill, lines 592-628: count and is_visible are outside any try
CheckAndFill(key, valStr, isMonth, next) ==
    /\ birthPc = key
    /\ \/ /\ birthLog' = Append(birthLog, BirthEntryOf(key, "query_raised", <<>>))
          /\ birthPc' = "done" /\ birthResult' = "raised"
       \/ /\ birthLog' = Append(birthLog, BirthEntryOf(key, "not_visible", <<>>))
          /\ birthPc' = next /\ UNCHANGED birthResult
       \/ /\ isMonth /\ 0 <= ParseInt(valStr) - 1 /\ ParseInt(valStr) - 1 < 12
          /\ \/ /\ birthLog' = Append(birthLog,
                      BirthEntryOf(key, "typed", MonthNames[ParseInt(valStr)]))
                /\ birthPc' = next /\ UNCHANGED birthResult
             \/ PlainFill(key, valStr,
                          Append(birthLog, BirthEntryOf(key, "type_raised", <<>>)), next)
       \/ /\ ~(isMonth /\ 0 <= ParseInt(valStr) - 1 /\ ParseInt(valStr) - 1 < 12)
          /\ PlainFill(key, valStr, birthLog, next)
    /\ UNCHANGED birthDate
    /\ UNCHANGED notBirth

\* lines 630-632
FillMonth == CheckAndFill("month", Pad2(Parsed.mo), TRUE, "day")
FillDay == CheckAndFill("day", IntToStr(Parsed.d), FALSE, "year")
FillYear == CheckAndFill("year", IntToStr(Parsed.y), FALSE, "return")

\* lines 634-636
BirthReturn ==
    /\ birthPc = "return"
    /\ birthPc' = "done"
    /\ birthResult' = "True"
    /\ UNCHANGED <<birthDate, birthLog>>
    /\ UNCHANGED notBirth


(***************************************************************************)
(* The proxy gateway (src/proxy_gateway.py 120-207)                        *)
(*                                                                         *)
(* Each connection is served by its own handler coroutine; the handlers    *)
(* interleave at their awaits.  The pool is the handler's collaborator:    *)
(* acquire hands out one of the pool's endpoints.                          *)
(***************************************************************************)
Conns == {"c1", "c2"}
GwEndpoints == 0..(MaxPool - 1)
HeadKinds == {"empty", "malformed", "connect", "http"}
\* the positions at which a handler waits and can be cancelled
AwaitPcs == {"read", "closing", "connect", "exchange", "pipe", "fallback"}

\* the failure is reported whether or not an endpoint was acquired
ReportsFailure_Always(proxy) == TRUE

\* if proxy_state is not None
ReportsFailure(proxy) == proxy # NoEndpoint

GwInit ==
    /\ gwPc = [c \in Conns |-> "idle"]
    /\ gwHead = [c \in Conns |-> "none"]
    /\ gwProxy = [c \in Conns |-> NoEndpoint]
    /\ gwAcquired = [c \in Conns |-> <<>>]
    /\ gwReports = [c \in Conns |-> <<>>]

\* a client connects: the server starts handle_client, lines 121-122
GwAccept(c) ==
    /\ gwPc[c] = "idle"
    /\ gwPc' = [gwPc EXCEPT ![c] = "read"]
    /\ UNCHANGED <<gwHead, gwProxy, gwAcquired, gwReports>>
    /\ UNCHANGED notGw

\* lines 125-126: the head is read; an empty head goes to the close of lines 127-129
GwReadHeaders(c) ==
    /\ gwPc[c] = "read"
    /\ \/ /\ gwPc' = [gwPc EXCEPT ![c] = "except"]
          /\ UNCHANGED gwHead
       \/ \E h \in HeadKinds :
            /\ gwHead' = [gwHead EXCEPT ![c] = h]
            /\ gwPc' = [gwPc EXCEPT ![c] = IF h = "empty" THEN "closing" ELSE "parse"]
    /\ UNCHANGED <<gwProxy, gwAcquired, gwReports>>
    /\ UNCHANGED notGw

\* lines 127-129: writer.close(), wait_closed() and the return
GwCloseEmpty(c) ==
    /\ gwPc[c] = "closing"
    /\ \E ok \in BOOLEAN : gwPc' = [gwPc EXCEPT ![c] = IF ok THEN "returned" ELSE "except"]
    /\ UNCHANGED <<gwHead, gwProxy, gwAcquired, gwReports>>
    /\ UNCHANGED notGw

\* lines 131-135: the request line is parsed (a malformed one raises), an endpoint
\* acquired and its URL parsed (which may raise)
GwAcquire(c) ==
    /\ gwPc[c] = "parse"
    /\ IF gwHead[c] = "malformed"
       THEN /\ gwPc' = [gwPc EXCEPT ![c] = "except"]
            /\ UNCHANGED <<gwProxy, gwAcquired>>
       ELSE \E e \in GwEndpoints, ok \in BOOLEAN :
              /\ gwProxy' = [gwProxy EXCEPT ![c] = e]
              /\ gwAcquired' = [gwAcquired EXCEPT ![c] = Append(@, e)]
              /\ gwPc' = [gwPc EXCEPT ![c] = IF ok THEN "connect" ELSE "except"]
    /\ UNCHANGED <<gwHead, gwReports>>
    /\ UNCHANGED notGw

\* line 137: asyncio.open_connection
GwConnect(c) ==
    /\ gwPc[c] = "connect"
    /\ \E ok \in BOOLEAN : gwPc' = [gwPc EXCEPT ![c] = IF ok THEN "exchange" ELSE "except"]
    /\ UNCHANGED <<gwHead, gwProxy, gwAcquired, gwReports>>
    /\ UNCHANGED notGw

\* lines 139-186 up to the pipes: for CONNECT the request to the upstream, its answer
\* (closed, not a 200, a 200) and the answer to the client; otherwise the head is
\* forwarded; every failure raises
GwExchange(c) ==
    /\ gwPc[c] = "exchange"
    /\ \E out \in IF gwHead[c] = "connect"
                  THEN {"ok", "write_raised", "upstream_closed", "not_200"}
                  ELSE {"ok", "write_raised"} :
         gwPc' = [gwPc EXCEPT ![c] = IF out = "ok" THEN "pipe" ELSE "except"]
    /\ UNCHANGED <<gwHead, gwProxy, gwAcquired, gwReports>>
    /\ UNCHANGED notGw

\* lines 171-173 and 184-186, then lines 188-189: the first pipe ends, the success
\* is reported and the handler returns
GwReportSuccess(c) ==
    /\ gwPc[c] = "pipe"
    /\ gwReports' = [gwReports EXCEPT ![c] = Append(@, [op |-> "report_success", ep |-> gwProxy[c]])]
    /\ gwPc' = [gwPc EXCEPT ![c] = "returned"]
    /\ UNCHANGED <<gwHead, gwProxy, gwAcquired>>
    /\ UNCHANGED notGw

\* lines 191-193: except Exception; the failure is reported when an endpoint is held
GwExcept(c) ==
    /\ gwPc[c] = "except"
    /\ gwReports' = [gwReports EXCEPT ![c] =
                        IF ReportsFailure(gwProxy[c])
                        THEN Append(@, [op |-> "report_failure", ep |-> gwProxy[c]])
                        ELSE @]
    /\ gwPc' = [gwPc EXCEPT ![c] = "fallback"]
    /\ UNCHANGED <<gwHead, gwProxy, gwAcquired>>
    /\ UNCHANGED notGw

\* lines 194-204: the 502 answer and the close, each in its own try
GwFallback(c) ==
    /\ gwPc[c] = "fallback"
    /\ gwPc' = [gwPc EXCEPT ![c] = "returned"]
    /\ UNCHANGED <<gwHead, gwProxy, gwAcquired, gwReports>>
    /\ UNCHANGED notGw

\* the handler's task is cancelled while it waits: CancelledError is not an
\* Exception, so line 191 does not catch it and the handler ends without returning
GwCancel(c) ==
    /\ gwPc[c] \in AwaitPcs
    /\ gwPc' = [gwPc EXCEPT ![c] = "cancelled"]
    /\ UNCHANGED <<gwHead, gwProxy, gwAcquired, gwReports>>
    /\ UNCHANGED notGw

(***************************************************************************)
(* Specifications                                                          *)
(***************************************************************************)
\* no delay computed
BackoffIdle ==
    /\ boCap = DefaultCap
    /\ boAttempt = -1
    /\ boJitter = 0
    /\ boDelay = 0
    /\ boFree = 0
    /\ boPrevFree = 0

\* a client on which no request is made
ClientIdle ==
    /\ maxRetries = 1
    /\ rjPc = "off"
    /\ attempt = 0
    /\ fetches = <<>>
    /\ rjLastStatus = 0
    /\ rjLastData = NoData
    /\ rjLastExc = 0
    /\ rjOut = NoOut


\* no upload made
UploadIdle ==
    /\ upEnv = 2
    /\ upPc = "off"
    /\ upAttempt = 0
    /\ upFetches = <<>>
    /\ upOut = "none"


\* a verifier that makes no precheck
LocaleIdle ==
    /\ vLocale = EnUS
    /\ vAccept = DefaultAccept
    /\ apiReady = FALSE
    /\ apiAccept = <<>>
    /\ nDoPrecheck = MaxPrechecks
    /\ preLog = <<>>


\* a page on which no frame is looked for
LocateIdle ==
    /\ pgCount = [ctx \in Contexts |-> [c \in 1..Len(Candidates) |-> "none"]]
    /\ located = MainFrame


\* a form whose organization field is not filled
OrgIdle ==
    /\ orgName = <<>>
    /\ orgInput = FALSE
    /\ idField = "none"
    /\ idValue = LongId
    /\ card = FALSE
    /\ idSet = FALSE
    /\ searchTerms = <<>>
    /\ orgPc = "off"
    /\ termIdx = 0
    /\ typed = <<>>
    /\ orgSuccess = FALSE
    /\ forcedSelects = 0
    /\ terminalWrites = 0
    /\ orgOutcome = "none"
    /\ idAt = NoId

CliIdle ==
    /\ cliUrl = <<>>
    /\ cliPc = "off"
    /\ cliExit = NoExit
    /\ cliPrinted = "none"

PoolIdle ==
    /\ poolN = 0
    /\ poolIdx = 0
    /\ failCount = [e \in 0..(MaxPool - 1) |-> 0]
    /\ cooldownUntil = [e \in 0..(MaxPool - 1) |-> 0]
    /\ poolLock = NoThread
    /\ clock = 0
    /\ thr = [t \in Threads |-> IdleThread]
    /\ poolCalls = 0
    /\ acquired = <<>>
    /\ failsReported = [e \in 0..(MaxPool - 1) |-> 0]


BirthIdle == birthDate = <<>> /\ birthPc = "idle" /\ birthResult = "none" /\ birthLog = <<>>


GwIdle == GwInit

Init == (\E force, dry \in BOOLEAN : RunInit(force, dry)) /\ ClientIdle /\ BackoffIdle /\ UploadIdle /\ LocaleIdle /\ LocateIdle /\ OrgIdle /\ CliIdle /\ PoolIdle /\ BirthIdle /\ GwIdle

Next ==
    \/ \E hasEmail \in BOOLEAN : Verify(hasEmail)
    \/ Precheck
    \/ EnsureBrowser
    \/ EnsureForm
    \/ NewPage
    \/ Goto
    \/ WaitIdle
    \/ LocateFormFrame
    \/ FillFirstName
    \/ FillLastName
    \/ FillEmail
    \/ FillOrg
    \/ FillBirthDate
    \/ CheckCheckboxes
    \/ Snapshot
    \/ Gate
    \/ Remediate
    \/ Submit
    \/ WaitIdleSubmitted
    \/ Poll

Spec == Init /\ [][Next]_vars

\* the API client alone: one request_json call under every transport behaviour
InitClient == RunInit(FALSE, FALSE) /\ ClientInit /\ BackoffIdle /\ UploadIdle /\ LocaleIdle /\ LocateIdle /\ OrgIdle /\ CliIdle /\ PoolIdle /\ BirthIdle /\ GwIdle

NextClient == RequestJson \/ Attempt

SpecClient == InitClient /\ [][NextClient]_vars

\* the submit gate alone: a run that filled the form without incident and whose
\* snapshot is any value dump_form_ready can produce
CleanFillLog ==
    <<"do_precheck", "ensure_browser", "ensure_form", "new_page", "goto",
      "wait_network_idle_soft", "locate_form_frame",
      "human_delay", "fill_text:first_name", "human_delay", "fill_text:last_name",
      "human_delay", "fill_text:email", "human_delay", "fill_org_and_select_first",
      "human_delay", "fill_birth_date_any", "human_delay", "check_all_visible_checkboxes",
      "dump_form_ready">>

InitGate ==
    /\ forceUi = FALSE
    /\ dryRun = FALSE
    /\ hasRun = TRUE
    /\ pc = "gate"
    /\ log = CleanFillLog
    /\ raised = {}
    /\ unfilled = FALSE
    /\ page = TRUE
    /\ currentStep = InitialStep
    /\ preStatus = [cs |-> InitialStep, n |-> 1]
    /\ \E s \in Snapshots : data = DataOf(s)
    /\ gate = "none"
    /\ remediations = 0
    /\ polls = 0
    /\ lastStatus = NoPayload
    /\ nPrecheck = 1
    /\ results = <<>>
    /\ ClientIdle
    /\ BackoffIdle
    /\ UploadIdle
    /\ LocaleIdle
    /\ LocateIdle
    /\ OrgIdle
    /\ CliIdle
    /\ PoolIdle
    /\ BirthIdle
    /\ GwIdle

NextGate == Gate \/ Remediate \/ Submit

SpecGate == InitGate /\ [][NextGate]_vars

\* the backoff delays of one retry loop, for every cap and every jitter
InitBackoff == RunInit(FALSE, FALSE) /\ ClientIdle /\ BackoffInit /\ UploadIdle /\ LocaleIdle /\ LocateIdle /\ OrgIdle /\ CliIdle /\ PoolIdle /\ BirthIdle /\ GwIdle

NextBackoff == Backoff

SpecBackoff == InitBackoff /\ [][NextBackoff]_vars

\* one upload_to_s3 call under every transport behaviour
InitUpload == RunInit(FALSE, FALSE) /\ ClientIdle /\ BackoffIdle /\ UploadInit /\ LocaleIdle /\ LocateIdle /\ OrgIdle /\ CliIdle /\ PoolIdle /\ BirthIdle /\ GwIdle

NextUpload == UploadToS3 \/ UploadAttempt

SpecUpload == InitUpload /\ [][NextUpload]_vars

\* the prechecks of one run under every server answer
InitLocales == RunInit(FALSE, FALSE) /\ ClientIdle /\ BackoffIdle /\ UploadIdle /\ LocaleInit /\ LocateIdle /\ OrgIdle /\ CliIdle /\ PoolIdle /\ BirthIdle /\ GwIdle

NextLocales == DoPrecheckNoApi \/ DoPrecheckRaises \/ DoPrecheckReturns

SpecLocales == InitLocales /\ [][NextLocales]_vars

\* locate_form_frame on every page
InitLocate == RunInit(FALSE, FALSE) /\ ClientIdle /\ BackoffIdle /\ UploadIdle /\ LocaleIdle /\ LocateInit /\ OrgIdle /\ CliIdle /\ PoolIdle /\ BirthIdle /\ GwIdle

NextLocate == Locate

SpecLocate == InitLocate /\ [][NextLocate]_vars

\* fill_org_and_select_first on every document and for every name
InitOrg == RunInit(FALSE, FALSE) /\ ClientIdle /\ BackoffIdle /\ UploadIdle /\ LocaleIdle /\ LocateIdle /\ OrgInit /\ CliIdle /\ PoolIdle /\ BirthIdle /\ GwIdle

NextOrg ==
    \/ OrgEntry
    \/ OrgTerm
    \/ OrgRoundKeyboard
    \/ OrgRoundJs
    \/ OrgTab
    \/ OrgPoll
    \/ OrgConfirm
    \/ OrgFinal

SpecOrg == InitOrg /\ [][NextOrg]_vars

\* the same under the scheduler's guarantee that a pending step of the coroutine is taken
SpecOrgFair == SpecOrg /\ WF_vars(NextOrg)

\* the organization step on every document, followed by the snapshot, the gate and the submit
FilledLog == SubSeq(CleanFillLog, 1, Len(CleanFillLog) - 1)

InitOrgGate ==
    /\ forceUi = FALSE
    /\ dryRun = FALSE
    /\ hasRun = TRUE
    /\ pc = "snapshot"
    /\ log = FilledLog
    /\ raised = {}
    /\ unfilled = FALSE
    /\ page = TRUE
    /\ currentStep = InitialStep
    /\ preStatus = [cs |-> InitialStep, n |-> 1]
    /\ data = DataNone
    /\ gate = "none"
    /\ remediations = 0
    /\ polls = 0
    /\ lastStatus = NoPayload
    /\ nPrecheck = 1
    /\ results = <<>>
    /\ ClientIdle
    /\ BackoffIdle
    /\ UploadIdle
    /\ LocaleIdle
    /\ LocateIdle
    /\ OrgInit
    /\ CliIdle
    /\ PoolIdle
    /\ BirthIdle
    /\ GwIdle

NextOrgGate == NextOrg \/ Snapshot \/ Gate \/ Remediate \/ Submit

SpecOrgGate == InitOrgGate /\ [][NextOrgGate]_vars

\* one invocation of the command line, with the run it starts
InitCli == (\E force, dry \in BOOLEAN : RunInit(force, dry)) /\ ClientIdle /\ BackoffIdle /\ UploadIdle /\ LocaleIdle /\ LocateIdle /\ OrgIdle /\ CliInit /\ PoolIdle /\ BirthIdle /\ GwIdle

NextCli ==
    \/ CliStart
    \/ CliVerify
    \/ CliReturn
    \/ Precheck
    \/ EnsureBrowser
    \/ EnsureForm
    \/ NewPage
    \/ Goto
    \/ WaitIdle
    \/ LocateFormFrame
    \/ FillFirstName
    \/ FillLastName
    \/ FillEmail
    \/ FillOrg
    \/ FillBirthDate
    \/ CheckCheckboxes
    \/ Snapshot
    \/ Gate
    \/ Remediate
    \/ Submit
    \/ WaitIdleSubmitted
    \/ Poll

SpecCli == InitCli /\ [][NextCli]_vars

\* a pool used by two threads, under every interleaving of their calls and of the clock
InitPool == RunInit(FALSE, FALSE) /\ ClientIdle /\ BackoffIdle /\ UploadIdle /\ LocaleIdle /\ LocateIdle /\ OrgIdle /\ CliIdle /\ PoolInit /\ BirthIdle /\ GwIdle

NextPool ==
    \/ Tick
    \/ \E t \in Threads : PoolCall(t)
    \/ \E t \in Threads : PoolLock(t)
    \/ \E t \in Threads : AcquireRead(t)
    \/ \E t \in Threads : AcquireAdvance(t)
    \/ \E t \in Threads : ReportSuccess(t)
    \/ \E t \in Threads : ReportFailureRead(t)
    \/ \E t \in Threads : ReportFailureWrite(t)

SpecPool == InitPool /\ [][NextPool]_vars


InitBirth == RunInit(FALSE, FALSE) /\ ClientIdle /\ BackoffIdle /\ UploadIdle /\ LocaleIdle /\ LocateIdle /\ OrgIdle /\ CliIdle /\ PoolIdle /\ BirthInit /\ GwIdle
NextBirth == BirthEntry \/ BirthEvaluate \/ FillMonth \/ FillDay \/ FillYear \/ BirthReturn
SpecBirth == InitBirth /\ [][NextBirth]_vars


InitGateway == RunInit(FALSE, FALSE) /\ ClientIdle /\ BackoffIdle /\ UploadIdle /\ LocaleIdle /\ LocateIdle /\ OrgIdle /\ CliIdle /\ PoolIdle /\ BirthIdle /\ GwInit
NextGateway ==
    \E c \in Conns :
        \/ GwAccept(c)
        \/ GwReadHeaders(c)
        \/ GwCloseEmpty(c)
        \/ GwAcquire(c)
        \/ GwConnect(c)
        \/ GwExchange(c)
        \/ GwReportSuccess(c)
        \/ GwExcept(c)
        \/ GwFallback(c)
        \/ GwCancel(c)
SpecGateway == InitGateway /\ [][NextGateway]_vars

(***************************************************************************)
(* Properties                                                              *)
(***************************************************************************)
Range(seq) == {seq[i] : i \in 1..Len(seq)}

BrowserCalls ==
    {"ensure_browser", "ensure_form", "new_page", "goto", "wait_network_idle_soft",
     "locate_form_frame", "fill_text:first_name", "fill_text:last_name", "fill_text:email",
     "fill_org_and_select_first", "fill_birth_date_any", "check_all_visible_checkboxes",
     "dump_form_ready", "click_submit", "page_close", "dump_page", "human_delay"}

IsSingleUseFailure(r) == ~r.success /\ r.message = "single_use"

\* C1: once the first invocation on an instance has ended (whatever its outcome),
\* every further invocation ends at once in a single-use failure and makes no
\* precheck and no browser call.
C1_SingleUse ==
    [][Len(results) >= 1 =>
          /\ pc' = "done"
          /\ log' = log
          /\ nPrecheck' = nPrecheck
          /\ results' # results =>
                /\ Len(results') = Len(results) + 1
                /\ IsSingleUseFailure(results'[Len(results')])]_vars

C1_Witness ==
    /\ Len(results) >= 2
    /\ results[1].success
    /\ IsSingleUseFailure(results[2])

\* C2 (as stated): the second run raises the single-use violation to the caller.
C2_Original == \A k \in 2..Len(results) : results[k].outcome = "raised"

\* C2 (amended): the second run returns the single-use violation as a structured
\* failure result with a trace of at most 2000 characters, and no invocation raises.
C2_SingleUseReturned ==
    \A k \in 1..Len(results) :
        /\ results[k].outcome = "returned"
        /\ k >= 2 => /\ IsSingleUseFailure(results[k])
                     /\ results[k].traceLen \in 0..2000

C2_Witness ==
    /\ Len(results) >= 2
    /\ results[1].message = "no_email"
    /\ results[2].outcome = "returned"
    /\ IsSingleUseFailure(results[2])

\* the steps whose exception no local handler of run catches
UnhandledSteps ==
    {"do_precheck", "ensure_browser", "ensure_form", "new_page", "wait_network_idle_soft",
     "fill_text:first_name", "fill_text:last_name", "fill_text:email", "click_submit", "poll"}
    \cup (IF forceUi THEN {} ELSE {"goto", "locate_form_frame"})

IsTracedFailure(r) ==
    /\ r.outcome = "returned"
    /\ ~r.success
    /\ r.message = "exception"
    /\ r.traceLen \in 0..2000

\* C3 (as stated): whatever collaborator raised at whatever step, the run gives a
\* failure result with a message and a trace of at most 2000 characters.
C3_Original ==
    (Len(results) >= 1 /\ raised # {}) => IsTracedFailure(results[1])

\* C3 (amended): no exception escapes run; an exception that no local handler
\* catches gives a failure result with a message and a trace of at most 2000
\* characters; no result carries a longer trace.
C3_UnhandledBecomesResult ==
    /\ \A k \in 1..Len(results) :
          results[k].outcome = "returned" /\ results[k].traceLen <= 2000
    /\ (Len(results) >= 1 /\ raised \cap UnhandledSteps # {}) => IsTracedFailure(results[1])
    /\ (raised \cap UnhandledSteps # {}) => pc = "done"

C3_Witness ==
    /\ Len(results) >= 1
    /\ "click_submit" \in raised
    /\ results[1].traceLen = 2000

NonEmptyTrimmed(x) == ~x.none /\ Strip(x.s) # <<>>

ClaimedGate(d) ==
    /\ NonEmptyTrimmed(d.schoolId) \/ NonEmptyTrimmed(d.schoolText)
    /\ d.consentChecked = "True"
    /\ d.ariaInvalidCount = 0

\* C5: outside dry-run the submit control is invoked only after a snapshot was
\* built and satisfied the gate.
C5_SubmitOnlyAfterGate ==
    ("click_submit" \in Range(log)) => (data.isDict /\ ClaimedGate(data.v))

\* C6: the gate passes exactly when (schoolId or schoolText is non-empty after
\* trimming) and consentChecked is true and ariaInvalidCount is 0.
C6_GateExact ==
    (gate \in {"passed", "failed"}) => ((gate = "passed") <=> ClaimedGate(data.v))

C6_Witness ==
    /\ gate = "passed"
    /\ data.v.schoolId = Str(<<>>)
    /\ data.v.schoolText = Str(<<"A">>)
    /\ remediations = 0

FillCalls ==
    <<"fill_text:first_name", "fill_text:last_name", "fill_text:email",
      "fill_org_and_select_first", "fill_birth_date_any", "check_all_visible_checkboxes",
      "dump_form_ready">>

IsFillCall(c) == c \in Range(FillCalls)

IsDryRunSuccess(r) ==
    /\ r.outcome = "returned"
    /\ r.success
    /\ r.message = "DRY_RUN"
    /\ r.formValues = data

C8_PollBudget ==
    [][/\ nPrecheck' <= 1 + 6
       /\ polls' <= 6
       /\ (polls >= 1 /\ PrecheckStep(lastStatus) # InitialStep) => nPrecheck' = nPrecheck]_vars

C8_Witness ==
    /\ polls = 3
    /\ PrecheckStep(lastStatus) = "pending"
    /\ pc = "done"

\* C9: after submit the result follows the last polled step: error gives failure
\* with that payload; the initial step after all 6 polls gives failure (not
\* advanced); any other step gives success with that payload.
C9_PollOutcome ==
    (pc = "done" /\ polls >= 1) =>
        LET step == IF lastStatus.cs = "absent" THEN InitialStep ELSE lastStatus.cs
            r == results[1]
        IN /\ step = "error" => (~r.success /\ r.status.payload = lastStatus)
           /\ (step = InitialStep /\ polls = 6) => (~r.success /\ r.message = "not_advanced")
           /\ step \notin {"error", InitialStep} => (r.success /\ r.status.payload = lastStatus)

C9_Witness ==
    /\ pc = "done"
    /\ polls = 6
    /\ results[1].message = "not_advanced"
    /\ ~results[1].success

IsRetryable(o) == o.kind = "resp" /\ o.status \in {408, 429, 500, 502, 503, 504}

\* C10 (as stated): at most maxRetries+1 transport calls; a further call is made
\* only after a call that threw or answered with a retryable status; a response
\* with any other status is returned right after its call.
C10_Original ==
    /\ Len(fetches) <= maxRetries + 1
    /\ \A k \in 1..Len(fetches) :
          /\ k < Len(fetches) => (fetches[k].kind = "throw" \/ IsRetryable(fetches[k]))
          /\ (fetches[k].kind = "resp" /\ ~IsRetryable(fetches[k])) =>
                (k = Len(fetches) /\ rjPc = "returned" /\ rjOut.status = fetches[k].status)

\* C10 (amended): at most maxRetries+1 transport calls; a further call is made
\* only after a call that threw, answered with a body readable neither as JSON
\* nor as text, or answered with a retryable status; a response with any other
\* status and a readable body is returned right after its call.
C10_RetryOnlyWhenDue ==
    /\ Len(fetches) <= maxRetries + 1
    /\ \A k \in 1..Len(fetches) :
          /\ k < Len(fetches) =>
                \/ fetches[k].kind = "throw"
                \/ fetches[k].body = "unreadable"
                \/ IsRetryable(fetches[k])
          /\ (fetches[k].kind = "resp" /\ ~IsRetryable(fetches[k])
                /\ fetches[k].body # "unreadable") =>
                (k = Len(fetches) /\ rjPc = "returned" /\ rjOut.status = fetches[k].status)

C10_Witness ==
    /\ maxRetries >= 1
    /\ Len(fetches) = maxRetries + 1
    /\ fetches[1].status = 200
    /\ fetches[1].body = "unreadable"
    /\ rjPc = "returned"

\* the call has used every attempt it is allowed
Exhausted == rjPc # "idle" /\ Len(fetches) = maxRetries + 1

\* C11 (as stated): when request_json has used all its attempts, the last
\* exception is re-raised if any attempt raised one, and the last (body, status)
\* pair is returned if no exception occurred, a retryable status included.
C11_Original ==
    Exhausted =>
        IF rjLastExc # 0
        THEN rjPc = "raised" /\ rjOut.exc = rjLastExc
        ELSE /\ rjPc = "returned"
             /\ rjOut.status = rjLastStatus
             /\ rjOut.data = rjLastData

\* C11 (amended): when request_json has used all its attempts, the exception of
\* the final attempt is re-raised if that attempt raised; if the final attempt
\* answered with a readable body its (body, status) pair is returned, a
\* retryable status included, whether or not an earlier attempt raised.
C11_FinalAttemptDecides ==
    Exhausted =>
        LET n == Len(fetches)
        IN IF AttemptRaises(fetches[n])
           THEN rjPc = "raised" /\ rjOut.kind = "raised" /\ rjOut.exc = n
           ELSE /\ rjPc = "returned"
                /\ rjOut.kind = "returned"
                /\ rjOut.status = fetches[n].status
                /\ rjOut.data = [call |-> n, form |-> fetches[n].body]

C11_Witness ==
    /\ maxRetries >= 1
    /\ Exhausted
    /\ fetches[1].kind = "throw"
    /\ fetches[Len(fetches)].kind = "resp"
    /\ fetches[Len(fetches)].status \in RetryStatuses
    /\ rjPc = "returned"
    /\ rjOut.status = fetches[Len(fetches)].status

\* C12: for every attempt index and every jitter in [0, 1] the backoff delay
\* min(cap, 2^i + j) does not exceed the configured cap, and the jitter-free
\* delay min(cap, 2^i) does not decrease from one attempt index to the next.
C12_BackoffCapped ==
    boAttempt >= 0 =>
        /\ boDelay <= boCap
        /\ boFree <= boCap
        /\ boPrevFree <= boFree

\* the cap cuts a delay that grew from one attempt to the next
C12_Witness ==
    /\ boAttempt >= 1
    /\ boCap = DefaultCap
    /\ boPrevFree < boFree
    /\ boDelay = boCap
    /\ Tenths * 2^boAttempt + boJitter > boCap

\* the attempt received a 2xx status
Got2xx(o) == o.kind = "resp" /\ o.status >= 200 /\ o.status <= 299

\* C13: upload_to_s3 makes at most max_attempts transport calls, max_attempts
\* being at least 1; it returns true exactly when some attempt received a 2xx
\* status, which is then the last attempt made; it returns false once
\* max_attempts attempts have all failed; it never raises.
C13_UploadOutcome ==
    LET n == Len(upFetches)
        m == IF upEnv > 1 THEN upEnv ELSE 1
    IN /\ n <= m
       /\ upOut \in {"none", "true", "false"}
       /\ \A k \in 1..n : Got2xx(upFetches[k]) => (k = n /\ upPc = "done" /\ upOut = "true")
       /\ upOut = "true" => (n >= 1 /\ Got2xx(upFetches[n]))
       /\ upOut = "false" => (n = m /\ \A k \in 1..n : ~Got2xx(upFetches[k]))
       /\ (n = m /\ ~Got2xx(upFetches[n])) => (upPc = "done" /\ upOut = "false")
       /\ upPc = "done" <=> upOut # "none"

\* a 2xx answer after an attempt that threw and one whose error body was unreadable
C13_Witness ==
    /\ upPc = "done"
    /\ upOut = "true"
    /\ Len(upFetches) = 3
    /\ upFetches[1].kind = "throw"
    /\ upFetches[2].kind = "resp" /\ upFetches[2].body = "unreadable"
    /\ upFetches[3].status = 299

\* the locale a precheck's payload declares, trimmed; empty when it declares none
DeclaredLocale(e) == IF e.resp = "ok" /\ e.declared.type = "str" THEN Strip(e.declared.s) ELSE <<>>
\* the payload declares a non-empty locale different from the current one
DeclaresOther(e) == DeclaredLocale(e) # <<>> /\ DeclaredLocale(e) # e.before
\* the Accept-Language header of the invocation's request
SentHeader(e) == e.reqs[1].hdr

\* C14 (as stated): after a precheck whose payload declares a non-empty locale L
\* different from the current locale, every later API request of the run carries
\* an Accept-Language header led by L; a precheck whose payload has no locale,
\* or the current locale, leaves the header unchanged.
C14_Original ==
    \A k \in 1..Len(preLog) :
        LET e == preLog[k]
        IN IF DeclaresOther(e)
           THEN \A m \in (k + 1)..Len(preLog) :
                    \A r \in 1..Len(preLog[m].reqs) :
                        Head(preLog[m].reqs[r].hdr) = DeclaredLocale(e)
           ELSE /\ e.hdrAfter = SentHeader(e)
                /\ k < Len(preLog) => SentHeader(preLog[k + 1]) = SentHeader(e)

\* C14 (amended): after a precheck whose payload declares a non-empty locale L
\* different from the current locale, the API requests that follow carry an
\* Accept-Language header led by L, up to and including the next precheck that
\* declares yet another locale; a precheck whose payload has no locale, or the
\* current locale, leaves the header unchanged.
C14_HeaderFollowsLocale ==
    \A k \in 1..Len(preLog) :
        LET e == preLog[k]
        IN IF DeclaresOther(e)
           THEN /\ Head(e.hdrAfter) = DeclaredLocale(e)
                /\ \A m \in (k + 1)..Len(preLog) :
                      (\A j \in (k + 1)..(m - 1) : ~DeclaresOther(preLog[j])) =>
                          \A r \in 1..Len(preLog[m].reqs) :
                              Head(preLog[m].reqs[r].hdr) = DeclaredLocale(e)
           ELSE /\ e.hdrAfter = SentHeader(e)
                /\ k < Len(preLog) => SentHeader(preLog[k + 1]) = SentHeader(e)

\* fr-FR declared with surrounding blanks, then a payload without locale, then a
\* third request that still leads with fr-FR
C14_Witness ==
    /\ Len(preLog) = 3
    /\ preLog[1].before = EnUS
    /\ preLog[1].declared = LocStr(<<" ">> \o FrFR \o <<" ">>)
    /\ preLog[2].resp = "ok" /\ preLog[2].declared = LocNone
    /\ SentHeader(preLog[3]) = AcceptLanguageFor(FrFR)
    /\ preLog[3].declared = LocStr(FrFR)
    /\ preLog[3].hdrAfter = SentHeader(preLog[3])

\* C15 (as stated): once a precheck has changed the locale and the
\* Accept-Language header, no later precheck of the run brings back the locale
\* that was replaced, whatever locales the server returns.
C15_Original ==
    \A j \in 1..Len(preLog) : \A k \in (j + 1)..Len(preLog) :
        preLog[j].after # preLog[j].before =>
            /\ preLog[k].after # preLog[j].before
            /\ Head(preLog[k].hdrAfter) # preLog[j].before

\* C15 (amended): a precheck changes the locale or the header only when its
\* payload declares a non-empty locale different from the current one, and the
\* locale and the head of the header then become that locale, an earlier locale
\* of the run included; nothing changes them between two prechecks.
C15_FollowsServer ==
    \A k \in 1..Len(preLog) :
        LET e == preLog[k]
        IN /\ (e.after # e.before \/ e.hdrAfter # SentHeader(e)) =>
                 /\ DeclaresOther(e)
                 /\ e.after = DeclaredLocale(e)
                 /\ Head(e.hdrAfter) = e.after
           /\ k < Len(preLog) =>
                 /\ preLog[k + 1].before = e.after
                 /\ SentHeader(preLog[k + 1]) = e.hdrAfter
           /\ k = Len(preLog) => (vLocale = e.after /\ apiAccept = e.hdrAfter /\ vAccept = apiAccept)

\* en-US replaced by fr-FR, and brought back by the next precheck
C15_Witness ==
    /\ Len(preLog) >= 2
    /\ preLog[1].before = EnUS
    /\ preLog[1].after = FrFR
    /\ preLog[2].declared = LocStr(EnUS)
    /\ preLog[2].after = EnUS
    /\ vLocale = EnUS
    /\ Head(apiAccept) = EnUS

HasMarker(ctx) == \E c \in 1..Len(Candidates) : pgCount[ctx][c] = "match"

\* C17: locate_form_frame returns the first context, in the order main document
\* then nested frames in document order, that holds a marker field, and the main
\* document when no context holds one; so the main document is returned whenever
\* it holds a marker field, whatever the nested frames hold.
C17_FirstContextWithMarker ==
    located # NoFrame =>
        /\ HasMarker(MainFrame) => located = MainFrame
        /\ (\A ctx \in Contexts : ~HasMarker(ctx)) => located = MainFrame
        /\ \A ctx \in Contexts :
              (HasMarker(ctx) /\ \A before \in 0..(ctx - 1) : ~HasMarker(before)) => located = ctx

\* the protocol ended with the organization confirmed
OrgConfirmed == orgOutcome \in {"already_selected", "selected_org_container", "hidden_org_id"}
\* the rounds run for the term during which the identifier was written
RoundsOfIdTerm ==
    LET i == CHOOSE j \in 1..Len(typed) : typed[j].term = idAt.term
    IN typed[i].rounds

\* C18: for a term whose results menu is visible at most 4 selection rounds are
\* run, and no selection attempt is started after a check has found the hidden
\* identifier populated; when the identifier is written during the 3rd round,
\* the protocol ends Confirmed having run exactly 3 rounds.
C18_StopsAtIdentifier ==
    /\ \A i \in 1..Len(typed) : typed[i].rounds <= MaxRounds
    /\ ((orgPc = "round_kb" /\ Rounds > 0) \/ orgPc = "round_js") =>
            ~CheckOrgIdFilled(idField, idValue, idSet)
    /\ (orgPc = "done" /\ idAt.round = 3) => (OrgConfirmed /\ RoundsOfIdTerm = 3)

\* the terms typed, the rounds and polls of each, and the writes stay within their limits
OrgBudget ==
    /\ Len(typed) <= 3
    /\ \A i \in 1..Len(typed) : typed[i].rounds <= MaxRounds /\ typed[i].polls <= MaxIdPolls
    /\ forcedSelects <= 1
    /\ terminalWrites <= 1
\* a card without any identifier field ends as a confirmation by the card
CardOnlyConfirmed ==
    (orgPc = "done" /\ card /\ idField = "none") =>
        orgOutcome \in {"already_selected", "selected_org_container"}

\* C19: fill_org_and_select_first terminates on every document, typing at most 3
\* search terms, running at most 4 selection rounds and 8 identifier polls per
\* term and at most one forced write; on a document that renders the selected
\* card and has no identifier field it ends confirmed by the card.
C19_TerminatesWithinBudget == [](OrgBudget /\ CardOnlyConfirmed) /\ <>(orgPc = "done")

\* the card appears in the last round of the third term, no identifier field exists:
\* all rounds and polls are used, one forced write is made, the card confirms
C19_Witness ==
    /\ orgPc = "done"
    /\ idField = "none"
    /\ card
    /\ Len(typed) = 3
    /\ typed[3].rounds = MaxRounds
    /\ typed[3].polls = MaxIdPolls
    /\ forcedSelects = 1
    /\ orgOutcome = "selected_org_container"

\* C20: fill_org_and_select_first propagates no exception to its caller,
\* whichever browser primitive fails, inside its error handler included.
C20_NeverRaises == orgOutcome # "raised"

\* C21: when the organization protocol ended through the terminal fallback (nothing
\* selected, the raw name written into the input) and the snapshot carries no
\* identifier, the gate does not pass and no submit follows
C21_TerminalFallbackNeverPasses ==
    (terminalWrites > 0 /\ data.v.schoolId = NoneStr)
        => (gate # "passed" /\ ~InSeq("click_submit", log))

\* C22: the process exits with 0 after a run whose result has success=true, with 2 and
\* without any run when the URL has no verificationId parameter, and with a non-zero
\* code after a run whose result has success=false
C22_ExitCodeFollowsResult ==
    cliPc = "exit" =>
        IF ~VidMatch(cliUrl)
        THEN cliExit = InvalidUrlExit /\ results = <<>> /\ ~hasRun
        ELSE /\ results[1].success => cliExit = 0
             /\ ~results[1].success => cliExit # 0

\* an acquire made while every endpoint was available
AllAvailable(a) == a.avail = Endpoints

C24_AtomicUpdates ==
    /\ poolIdx \in 0..(poolN - 1)
    /\ \A e \in Endpoints : failCount[e] = failsReported[e]
    /\ \A i \in 1..(Len(acquired) - 1) :
         (acquired[i + 1].t \in acquired[i].conc
            /\ AllAvailable(acquired[i]) /\ AllAvailable(acquired[i + 1]))
         => acquired[i + 1].ep = (acquired[i].ep + 1) % poolN

C24_Witness ==
    /\ Len(acquired) = 2
    /\ acquired[2].t \in acquired[1].conc
    /\ AllAvailable(acquired[1]) /\ AllAvailable(acquired[2])
    /\ \E t, u \in Threads :
         /\ thr[t].pc = "write" /\ thr[u].pc = "wait" /\ thr[u].op = "report_failure"
         /\ thr[t].ep = thr[u].ep
         /\ failCount[thr[t].ep] = 1

\* C25: with the force-continue override set, a precheck that returned a step other
\* than the initial one (error included) does not end the run: browser setup is
\* the next call, and page opening and navigation follow it
C25_ForceContinueEntersBrowser ==
    (forceUi /\ currentStep \notin {"none", InitialStep}) =>
        /\ pc = "ensure_browser" \/ InSeq("ensure_browser", log)
        /\ (pc = "done" /\ raised = {}) => InSeq("goto", log)
        /\ results # <<>> => results[1].message # "precheck_step"

C25_Witness ==
    /\ forceUi
    /\ currentStep = "error"
    /\ pc = "wait_idle"
    /\ SubSeq(log, 1, 5) = <<"do_precheck", "ensure_browser", "ensure_form", "new_page", "goto">>

\* the fill, snapshot and submit calls
FormCalls == Range(FillCalls) \cup {"click_submit"}

\* C26: without the override, a failure of navigation or of form-context location is
\* fatal: it reaches the top-level handler, the run ends with success=false, and no
\* fill, no snapshot and no submit is made
C26_NavigationFailureFatal ==
    (~forceUi /\ raised \cap {"goto", "locate_form_frame"} # {}) =>
        /\ pc = "done"
        /\ IsTracedFailure(results[1])
        /\ Range(log) \cap FormCalls = {}

C26_Witness ==
    /\ ~forceUi
    /\ "locate_form_frame" \in raised
    /\ Len(results) = 1
    /\ ~results[1].success
    /\ InSeq("goto", log)

\* the fill calls, the snapshot and the submit, as they appear in the log
FormLog == SelectSeq(log, LAMBDA c : c \in FormCalls)
FillStepCalls == Range(FillCalls) \ {"dump_form_ready"}

\* C27: the fill steps are made one after the other in the order first name, last
\* name, email, organization, birth date, checkboxes, each right after a pacing
\* delay, and all six before the snapshot, which comes before the submit
C27_FillOrder ==
    /\ \A i \in 1..Len(FormLog) : i <= Len(FillCalls) => FormLog[i] = FillCalls[i]
    /\ \A i \in 1..Len(log) :
         log[i] \in FillStepCalls => (i > 1 /\ log[i - 1] = "human_delay")
    /\ \A i \in 1..Len(FormLog) : FormLog[i] = "click_submit" => i > Len(FillCalls)

C27_Witness ==
    /\ Len(FormLog) = Len(FillCalls) + 1
    /\ FormLog[Len(FormLog)] = "click_submit"
    /\ remediations = 0

\* the first fill and snapshot calls of the run
FirstFormCalls == SubSeq(FormLog, 1, Min(Len(FormLog), Len(FillCalls)))

\* the failures of a fill step that the step's handler keeps to itself
FillFailures ==
    raised \cap {"fill_org_and_select_first", "fill_birth_date_any",
                 "check_all_visible_checkboxes"}
TextFillCalls == {"fill_text:first_name", "fill_text:last_name", "fill_text:email"}
FillPcs == {"fill_first_name", "fill_last_name", "fill_email", "fill_org", "fill_birth_date",
            "checkboxes", "snapshot"}

\* C28: a field that cannot be filled (a text field not resolved or not typed into,
\* an exception of the organization, birth-date or checkbox step) does not end the
\* run: every later fill step and the snapshot are made, and outside dry-run the
\* gate is reached
C28_FillFailureContinues ==
    ((unfilled \/ FillFailures # {}) /\ raised \cap TextFillCalls = {}) =>
        /\ pc \notin FillPcs => FirstFormCalls = FillCalls
        /\ (pc \notin FillPcs \cup {"gate", "remediate"} /\ ~dryRun) => gate # "none"
        /\ pc = "done" => (results[1].message # "exception" \/ raised \cap {"click_submit", "wait_network_idle_soft", "poll"} # {})

C28_Witness ==
    /\ unfilled
    /\ {"fill_org_and_select_first", "fill_birth_date_any"} \subseteq raised
    /\ gate = "passed"
    /\ FirstFormCalls = FillCalls

Count(c) == Len(SelectSeq(log, LAMBDA x : x = c))

\* what holds of the remediation pass whether or not its checkbox check raises
OnePass ==
    /\ remediations <= 1
    /\ (gate \in {"passed", "failed"} /\ remediations = 0) => data.v.consentChecked = "True"
    /\ remediations = 1 => Count("check_all_visible_checkboxes") = 2
    /\ (remediations = 1 /\ ~ConsentOk(data.v)) =>
          (gate = "failed" /\ pc = "done" /\ ~InSeq("click_submit", log))

\* C29 (as stated): a first snapshot with consent not confirmed is followed by exactly
\* one remediation pass, made of one more checkbox check and one re-snapshot; with
\* consent still unconfirmed after it the gate fails and no submit is made
C29_Original ==
    /\ OnePass
    /\ remediations = 1 => Count("dump_form_ready") = 2

\* C29 (amended): the same, the re-snapshot being taken only when the checkbox check
\* of the pass did not raise
C29_OneRemediation ==
    /\ OnePass
    /\ remediations = 1 =>
          Count("dump_form_ready") = (IF "remediate_checkboxes" \in raised THEN 1 ELSE 2)

C29_Witness ==
    /\ remediations = 1
    /\ raised = {}
    /\ ~ConsentOk(data.v)
    /\ gate = "failed"
    /\ Count("dump_form_ready") = 2

\* the form as the protocol can change it, and the interactions it has made
orgForm == <<orgInput, idField, idValue, card, idSet, typed, forcedSelects, terminalWrites>>

\* C30: entered on a document that already shows a selected-organization card, the
\* protocol returns at once as already selected, having typed nothing, run no
\* selection round and written nothing, and leaves the form as it was; a
\* protocol that ended Confirmed leaves a document on which this holds of the
\* next entry
C30_CardShortCircuit ==
    /\ [][(orgPc = "idle" /\ card) =>
            (orgPc' = "done" /\ orgOutcome' = "already_selected" /\ UNCHANGED orgForm)]_vars
    /\ [](orgOutcome = "already_selected" =>
            (typed = <<>> /\ forcedSelects = 0 /\ terminalWrites = 0))
    /\ []((orgPc = "done" /\ OrgConfirmed) =>
            IsOrgAlreadySelected(card, idField, idValue, idSet))

C30_Witness ==
    /\ orgPc = "done"
    /\ orgOutcome = "already_selected"
    /\ card
    /\ ~idSet
    /\ orgInput
    /\ Strip(orgName) # <<>>
    /\ typed = <<>>

\* the hyphen-separated segments of a name (the runs of characters between two
\* hyphens or an end of the name) that are not blank, by their positions
SegmentAt(raw, i, j) ==
    /\ i <= j
    /\ \A k \in i..j : raw[k] # "-"
    /\ i = 1 \/ raw[i - 1] = "-"
    /\ j = Len(raw) \/ raw[j + 1] = "-"
    /\ Strip(SubSeq(raw, i, j)) # <<>>
Segments(raw) == {p \in (1..Len(raw)) \X (1..Len(raw)) : SegmentAt(raw, p[1], p[2])}
LastSegment(raw) ==
    LET p == CHOOSE q \in Segments(raw) : \A r \in Segments(raw) : r[1] <= q[1]
    IN Strip(SubSeq(raw, p[1], p[2]))

\* a list without its empty entries and without the entries that repeat an earlier one
RECURSIVE DropRepeats(_)
DropRepeats(seq) ==
    IF seq = <<>> THEN <<>>
    ELSE LET init == DropRepeats(SubSeq(seq, 1, Len(seq) - 1))
             last == seq[Len(seq)]
         IN IF last = <<>> \/ InSeq(last, init) THEN init ELSE Append(init, last)

\* the list the claim describes, for a name
ClaimedTerms(name) ==
    LET raw == Strip(name)
        trailing == IF Cardinality(Segments(raw)) >= 2 THEN LastSegment(raw) ELSE <<>>
    IN DropRepeats(<<trailing, Strip(DashToSpace(raw)), raw>>)

\* C31: the search terms are the trailing hyphen segment (when the name has at least
\* two non-blank segments), the name with hyphens replaced by spaces and the raw
\* name, in that order, later duplicates dropped; no term of fewer than 2
\* characters is typed
C31_SearchTerms ==
    /\ (orgPc \notin {"off", "idle"} /\ orgOutcome \notin {"already_selected", "not_found"})
          => searchTerms = ClaimedTerms(orgName)
    /\ \A i \in 1..Len(typed) : Len(searchTerms[typed[i].term]) >= 2

C31_Witness ==
    /\ orgName = <<"A", "B", "-", "C">>
    /\ searchTerms = <<<<"C">>, <<"A", "B", " ", "C">>, <<"A", "B", "-", "C">>>>
    /\ Len(typed) = 2
    /\ typed[1].term = 2

\* a hidden input of the document holds a non-blank identifier
HiddenIdPopulated == idSet /\ idField \in {"orgId", "alt"} /\ Strip(idValue) # <<>>

\* the document holds an identifier the polling of lines 511-514 stops at: more than
\* 5 characters in a hidden input, or a data-selected-id attribute
LongIdPresent ==
    idSet /\ ((idField \in {"orgId", "alt"} /\ Len(idValue) > 5) \/ idField = "data")

\* the strict check confirms: a card, or a non-blank organizationId/schoolId
StrictlyConfirmed == card \/ (idSet /\ idField = "orgId" /\ Strip(idValue) # <<>>)

ForcedWrite == forcedSelects' # forcedSelects

C33_NotFoundEndsProtocol ==
    /\ [][(orgPc = "idle" /\ ~StrictlyConfirmed /\ ~orgInput) =>
            (orgPc' = "done" /\ orgOutcome' = "not_found" /\ UNCHANGED orgForm)]_vars
    /\ [](orgOutcome = "not_found" =>
            (orgPc = "done" /\ ~orgInput /\ typed = <<>> /\ searchTerms = <<>>
               /\ forcedSelects = 0 /\ terminalWrites = 0))

C33_Witness ==
    /\ orgOutcome = "not_found"
    /\ orgPc = "done"
    /\ Strip(orgName) # <<>>
    /\ ~card
    /\ terminalWrites = 0

\* the shape YYYY-M-D, read off the string piece by piece: three runs of digits
\* between dashes, of 4, of 1 or 2 and of 1 or 2 characters
ShapedDate(s) ==
    LET ps == SplitDash(s)
    IN /\ Len(ps) = 3
       /\ Len(ps[1]) = 4 /\ Len(ps[2]) \in 1..2 /\ Len(ps[3]) \in 1..2
       /\ \A i \in 1..3 : AllDigits(ps[i])

BirthRaised ==
    /\ birthLog # <<>>
    /\ birthLog[Len(birthLog)].op \in {"query_raised", "value_raised"}

\* C34 as stated: a date that is not YYYY-M-D as given is answered False with no
\* interaction, every other date is answered True
C34_Original ==
    birthPc = "done" =>
        /\ ~ShapedDate(birthDate) => (birthResult = "False" /\ birthLog = <<>>)
        /\ ShapedDate(birthDate) => birthResult = "True"

\* C34: a date that, blanks around it removed, is not YYYY-M-D is answered False
\* with nothing done to the page; every other date is answered True, unless a
\* query of a control (count, is_visible, input_value) raised, which ends the call
\* with that exception
C34_BirthDateShape ==
    birthPc = "done" =>
        /\ ~ShapedDate(Strip(birthDate)) => (birthResult = "False" /\ birthLog = <<>>)
        /\ ShapedDate(Strip(birthDate)) =>
             /\ birthResult \in {"True", "raised"}
             /\ birthResult = "raised" <=> BirthRaised
             /\ birthLog # <<>>

C34_Witness ==
    /\ birthPc = "done"
    /\ birthResult = "True"
    /\ birthDate = <<" ", "2", "0", "0", "0", "-", "1", "2", "-", "5">>
    /\ Len(birthLog) = 4
    /\ birthLog[2] = BirthEntryOf("month", "typed", "December")
    /\ birthLog[3] = BirthEntryOf("day", "filled", <<"5">>)

AcquireReturned == Len(acquired') = Len(acquired) + 1
Returned == acquired'[Len(acquired')]

\* C35: an acquire made while every endpoint is cooling down returns an endpoint
\* whose cooldown ends no later than any other's, and leaves the cursor where it
\* was when the call began
C35_AllCoolingEarliest ==
    [][(AcquireReturned /\ Returned.avail = {}) =>
          /\ Returned.ep \in Endpoints
          /\ \A e \in Endpoints : cooldownUntil[Returned.ep] <= cooldownUntil[e]
          /\ poolIdx' = Returned.start]_vars

C35_Witness ==
    /\ poolN = 2
    /\ Len(acquired) = 1
    /\ acquired[1].avail = {}
    /\ acquired[1].start = 0
    /\ acquired[1].ep = 1
    /\ cooldownUntil[1] < cooldownUntil[0]
    /\ poolIdx = 0

FailureStored(e) == failsReported'[e] = failsReported[e] + 1
SuccessStored(e) ==
    \E t \in Threads : /\ thr[t].op = "report_success" /\ thr[t].pc = "body" /\ thr[t].ep = e
                       /\ thr'[t].pc = "idle"

\* C36: a reported failure starts the endpoint's cooldown when the failures reported
\* on it since its last success number max_fail or more, and leaves the endpoint as
\* it was, available, when they are fewer; a reported success sets the count to 0
\* and ends the cooldown; the passing of time changes no count, so that a failure
\* reported after the cooldown ran out starts a new one at once
C36_CooldownByCount ==
    /\ [][\A e \in Endpoints :
            /\ FailureStored(e) =>
                 IF failsReported'[e] >= MaxFail
                 THEN cooldownUntil'[e] = clock + CooldownTicks /\ cooldownUntil'[e] > clock'
                 ELSE cooldownUntil'[e] = 0
            /\ SuccessStored(e) => (failCount'[e] = 0 /\ cooldownUntil'[e] = 0)
            /\ clock' # clock => failCount'[e] = failCount[e]]_vars
    /\ [](\A e \in Endpoints :
            /\ failCount[e] = failsReported[e]
            /\ failsReported[e] < MaxFail => cooldownUntil[e] = 0)

C36_Witness ==
    /\ poolN = 1
    /\ failCount[0] = MaxFail + 1
    /\ clock = CooldownTicks
    /\ cooldownUntil[0] = clock + CooldownTicks

Advanced(p) == PrecheckStep(p) \notin {InitialStep, "error"}

PrecheckGated(r) ==
    /\ r.status.kind = "precheck"
    /\ r.status.payload = preStatus
    /\ Advanced(r.status.payload)
    /\ ~InSeq("ensure_browser", log)

DryRunResult(r) ==
    /\ r.status.kind = "dry_run"
    /\ dryRun
    /\ ~InSeq("click_submit", log)

PostSubmit(r) ==
    /\ r.status.kind = "poll"
    /\ InSeq("click_submit", log)
    /\ "click_submit" \notin raised
    /\ polls >= 1
    /\ r.status.payload = lastStatus
    /\ Advanced(lastStatus)

\* C37: a result of run with success=true is the result of a precheck whose step is
\* neither the initial step nor error, or the result of a dry run, or the result
\* returned after the submit control was invoked and the last polled step was
\* neither the initial step nor error
C37_SuccessKinds ==
    \A i \in 1..Len(results) :
        results[i].success =>
            \/ PrecheckGated(results[i])
            \/ DryRunResult(results[i])
            \/ PostSubmit(results[i])

C37_Witness ==
    /\ Len(results) = 1
    /\ results[1].success
    /\ PostSubmit(results[1])
    /\ polls = 2
    /\ forceUi
    /\ currentStep = "error"

\* C38: precheck returns the currentStep of the payload, and the initial step when the
\* payload has none, whatever the HTTP status of the response; the step returned for
\* a payload without currentStep does not end the run at its precheck, with or
\* without force-continue
C38_PrecheckStepDefault ==
    \A k \in 1..Len(preLog) :
        preLog[k].resp = "ok" =>
            /\ preLog[k].cs # "absent" => preLog[k].step = preLog[k].cs
            /\ preLog[k].cs = "absent" =>
                 /\ preLog[k].step = InitialStep
                 /\ \A force \in BOOLEAN : ~EndsAtPrecheck(preLog[k].step, force)

C38_Witness ==
    /\ Len(preLog) = 2
    /\ preLog[1].resp = "ok" /\ preLog[1].http = 404 /\ preLog[1].cs = "absent"
    /\ preLog[1].step = InitialStep
    /\ preLog[2].resp = "ok" /\ preLog[2].http = 200 /\ preLog[2].cs = "pending"
    /\ preLog[2].step = "pending"

\* request_json has ended, by a return or by an exception
Finished == rjPc \in {"returned", "raised"}
FinalAttempt == fetches[Len(fetches)]

\* C39 (as stated): the call ends as its final transport attempt did: with that
\* attempt's exception when it threw, with that attempt's (body, status) and no
\* exception when it returned a response, whatever earlier attempts did
C39_Original ==
    Finished =>
        IF FinalAttempt.kind = "throw"
        THEN rjOut.kind = "raised" /\ rjOut.exc = Len(fetches)
        ELSE /\ rjOut.kind = "returned"
             /\ rjOut.status = FinalAttempt.status
             /\ rjOut.data.call = Len(fetches)

\* C39 (amended): the call ends as its final transport attempt did: with that
\* attempt's exception when it threw or its response could be read neither as JSON
\* nor as text, with that attempt's (body, status) and no exception when it returned
\* a readable response, whatever earlier attempts did; an attempt that is not the
\* last one of the call leaves no trace in the outcome
C39_FinalAttemptAlone ==
    /\ Finished =>
        IF FinalAttempt.kind = "throw" \/ FinalAttempt.body = "unreadable"
        THEN /\ rjOut.kind = "raised" /\ rjOut.exc = Len(fetches)
             /\ Len(fetches) = maxRetries + 1
        ELSE /\ rjOut.kind = "returned"
             /\ rjOut.status = FinalAttempt.status
             /\ rjOut.data = [call |-> Len(fetches), form |-> FinalAttempt.body]
             /\ rjOut.exc = 0
    /\ ~Finished => rjOut = NoOut

C39_Witness ==
    /\ maxRetries = 2
    /\ Len(fetches) = 2
    /\ fetches[1].kind = "throw"
    /\ fetches[2].kind = "resp" /\ fetches[2].status = 404 /\ fetches[2].body = "text"
    /\ rjPc = "returned"
    /\ rjOut.status = 404
    /\ rjLastExc = 1

\* C40: a handler that returns after acquiring an endpoint has made exactly one
\* report, a success or a failure, on that endpoint; a handler that acquired none
\* (empty or malformed head, or a failed read) has made no report; no handler
\* acquires twice or reports before it acquires
C40_OneReportPerAcquire ==
    \A c \in Conns :
        /\ Len(gwAcquired[c]) <= 1
        /\ Len(gwReports[c]) <= Len(gwAcquired[c])
        /\ gwHead[c] \in {"none", "empty", "malformed"} => gwAcquired[c] = <<>>
        /\ gwPc[c] = "returned" =>
             IF gwAcquired[c] = <<>>
             THEN gwReports[c] = <<>>
             ELSE /\ Len(gwReports[c]) = 1
                  /\ gwReports[c][1].ep = gwAcquired[c][1]
                  /\ gwReports[c][1].op \in {"report_success", "report_failure"}

C40_Witness ==
    /\ gwPc = [c \in Conns |-> "returned"]
    /\ gwHead["c1"] = "connect" /\ gwHead["c2"] = "malformed"
    /\ gwAcquired["c1"] = <<1>>
    /\ gwReports["c1"] = <<[op |-> "report_failure", ep |-> 1]>>
    /\ gwReports["c2"] = <<>>
====
